---- MODULE Spec2Model ----
(***************************************************************************)
(* A model of scripts/07_basic_analysis.py: the column classifier          *)
(* (determine_sample_columns), the streaming row accumulator of main, the  *)
(* alpha-diversity and composition steps, and the pairwise distance        *)
(* engine (_pairwise, _bray, _jaccard).                                    *)
(*                                                                         *)
(* Python strings are sequences of one-character strings, so that          *)
(* lower(), strip(), float() and the sample regex are computed character   *)
(* by character.  Floats are exact rationals [n, d] with d > 0; the float  *)
(* NaN is the rational with denominator 0.                                 *)
(***************************************************************************)
EXTENDS Integers, Sequences, FiniteSets

VARIABLES
    pc,            \* position of main: see the actions below
    err,           \* the exception that ended the run, or "none"
    header,        \* the first worksheet row, a sequence of column names
    sample_cols,   \* determine_sample_columns(header)
    meta_df,       \* one record per sample column (main, line 202)
    row,           \* the worksheet row read last (raw cell values)
    row_counts,    \* the coerced counts of that row, in sample order
    row_sum,       \* their total
    consumed,      \* history: the counts and labels of the rows read so far
    processed,     \* number of rows read
    libsize, richness, sum_c_logc,
    species_sets, genus_sets, family_sets,
    agg_by_order, agg_by_genus, agg_by_family,
    asv_counts,    \* the retained ASV buffer
    alpha,         \* library_size/observed_asvs/shannon/pielou_evenness per sample
    comp,          \* relative-abundance tables by rank
    dist,          \* the four dissimilarity matrices
    uv,            \* a pair of vectors handed to _bray/_jaccard, and the results
    logged,        \* the calls of math.log made so far: call site and argument
    nmds,          \* the two ordination tables (genus-level, ASV-level)
    report,        \* the workbook written: its file and its sheets
    perm,          \* a matrix and grouping handed to the group statistics, and the results
    summary,       \* the annotated alpha table of the closing tests, their records and
                   \* the summary file
    first_run,     \* when main is run a second time on the same worksheet: the rows
                   \* the first run read and what its accumulators held at its end
    asv_table,     \* 06_filter_by: the count table, its sample columns and its rows
    tax_table,     \* 06_filter_by: the taxonomy rows, by the index of the row
    files,         \* the files of the two preparation scripts' output directories:
                   \* for 05_exploratory_analysis_arthropoda, line by line
    chunks,        \* 05: the chunks of the input file
    chunk_i,       \* 05: the number of chunks processed
    totals         \* 05: the counters of the summary

vars == << pc, err, header, sample_cols, meta_df, row, row_counts, row_sum,
           consumed, processed, libsize, richness, sum_c_logc,
           species_sets, genus_sets, family_sets,
           agg_by_order, agg_by_genus, agg_by_family, asv_counts,
           alpha, comp, dist, uv, logged, nmds, report, perm, first_run, summary,
           asv_table, tax_table, files, chunks, chunk_i, totals >>

(***************************************************************************)
(* Bounds of the model.                                                    *)
(***************************************************************************)
MaxCols == 4     \* longest header handed to the classifier on its own
MaxCells == 4    \* most sample cells (rows x sample columns) one run of main reads
MaxLen == 3      \* longest vector handed to _bray/_jaccard on its own
MaxVal == 2      \* largest entry of such a vector
MaxSamples == 3  \* most samples of a distance matrix handed to the group statistics
perms == 2       \* label shuffles of the PERMANOVA fallback (999 at line 458)

(***************************************************************************)
(* Characters and strings.                                                 *)
(***************************************************************************)
LowerLetters == {"a","b","c","d","e","f","g","h","i","j","k","l","m",
                 "n","o","p","q","r","s","t","u","v","w","x","y","z"}
UpperLetters == {"A","B","C","D","E","F","G","H","I","J","K","L","M",
                 "N","O","P","Q","R","S","T","U","V","W","X","Y","Z"}
Letters == LowerLetters \cup UpperLetters
Digits == {"0","1","2","3","4","5","6","7","8","9"}
Whitespace == {" ", "\n", "\t"}

\* str.lower() on one character
LowerCh(ch) ==
    CASE ch = "A" -> "a" [] ch = "B" -> "b" [] ch = "C" -> "c" [] ch = "D" -> "d"
      [] ch = "E" -> "e" [] ch = "F" -> "f" [] ch = "G" -> "g" [] ch = "H" -> "h"
      [] ch = "I" -> "i" [] ch = "J" -> "j" [] ch = "K" -> "k" [] ch = "L" -> "l"
      [] ch = "M" -> "m" [] ch = "N" -> "n" [] ch = "O" -> "o" [] ch = "P" -> "p"
      [] ch = "Q" -> "q" [] ch = "R" -> "r" [] ch = "S" -> "s" [] ch = "T" -> "t"
      [] ch = "U" -> "u" [] ch = "V" -> "v" [] ch = "W" -> "w" [] ch = "X" -> "x"
      [] ch = "Y" -> "y" [] ch = "Z" -> "z" [] OTHER -> ch

\* str(c).lower()
Lower(s) == [i \in 1..Len(s) |-> LowerCh(s[i])]

\* the length of the longest run of characters of cls in s that starts at i
Run(s, i, cls) ==
    CHOOSE n \in 0..(Len(s) + 1 - i) :
        /\ \A k \in i..(i + n - 1) : s[k] \in cls
        /\ (i + n > Len(s) \/ s[i + n] \notin cls)

(***************************************************************************)
(* determine_sample_columns                                                *)
(***************************************************************************)
RankNames == { <<"k","i","n","g","d","o","m">>, <<"p","h","y","l","u","m">>,
               <<"c","l","a","s","s">>, <<"o","r","d","e","r">>,
               <<"f","a","m","i","l","y">>, <<"g","e","n","u","s">>,
               <<"s","p","e","c","i","e","s">> }

tax_markers ==
    RankNames \cup { r \o <<"_","x">> : r \in RankNames }
              \cup { r \o <<"_","y">> : r \in RankNames }

\* the scan of lines 157-161: the 0-based index of the first marker at or
\* after idx, or -1 for None
RECURSIVE first_tax_idx_from(_, _)
first_tax_idx_from(lower_header, idx) ==
    IF idx >= Len(lower_header) THEN -1
    ELSE IF lower_header[idx + 1] \in tax_markers THEN idx
    ELSE first_tax_idx_from(lower_header, idx + 1)

\* a pattern's $ : the end of the string, or just before a final newline
AtEnd(s, p) == p = Len(s) + 1 \/ (p = Len(s) /\ s[p] = "\n")

\* the quantifier {2,3} of the leading letter group
SiteLenBug == {1, 2, 3}
SiteLen == {2, 3}

\* sample_regex.match(str(c)) for
\* ^[A-Za-z]{2,3}_[A-Za-z]+/[0-9]+(?:[-/][0-9]+)?$ with re.IGNORECASE
sample_regex_match(s) ==
    LET n1 == Run(s, 1, Letters)
        p2 == n1 + 2
        n2 == Run(s, p2, Letters)
        p3 == p2 + n2 + 1
        n3 == Run(s, p3, Digits)
        p4 == p3 + n3
        n4 == Run(s, p4 + 1, Digits)
    IN  /\ n1 \in SiteLen
        /\ n1 + 1 <= Len(s) /\ s[n1 + 1] = "_"
        /\ n2 >= 1
        /\ p3 - 1 <= Len(s) /\ s[p3 - 1] = "/"
        /\ n3 >= 1
        /\ \/ AtEnd(s, p4)
           \/ /\ p4 <= Len(s) /\ s[p4] \in {"-", "/"}
              /\ n4 >= 1
              /\ AtEnd(s, p4 + 1 + n4)

\* header[:first_tax_idx]
SliceBug(hdr, idx) == SubSeq(hdr, 1, idx + 1)
Slice(hdr, idx) == SubSeq(hdr, 1, idx)

determine_sample_columns(hdr) ==
    LET lower_header == [i \in 1..Len(hdr) |-> Lower(hdr[i])]
        first_tax_idx == first_tax_idx_from(lower_header, 0)
    IN  IF first_tax_idx # -1 /\ first_tax_idx > 0
        THEN Slice(hdr, first_tax_idx)
        ELSE SelectSeq(hdr, sample_regex_match)

(***************************************************************************)
(* Numbers.  A float is the exact rational [n, d], d > 0, in lowest terms; *)
(* NaN is [n |-> 0, d |-> 0].                                              *)
(***************************************************************************)
Abs(x) == IF x < 0 THEN -x ELSE x

RECURSIVE GCD(_, _)
GCD(a, b) == IF b = 0 THEN a ELSE GCD(b, a % b)

NaN == [n |-> 0, d |-> 0]
IsNaN(a) == a.d = 0

Rat(n, d) ==
    IF d = 0 THEN NaN
    ELSE LET g == GCD(Abs(n), Abs(d))
             sg == IF d < 0 THEN -1 ELSE 1
         IN  [n |-> (sg * n) \div g, d |-> (sg * d) \div g]

RInt(k) == [n |-> k, d |-> 1]
RAdd(a, b) == Rat(a.n * b.d + b.n * a.d, a.d * b.d)
RSub(a, b) == Rat(a.n * b.d - b.n * a.d, a.d * b.d)
RDiv(a, b) == Rat(a.n * b.d, a.d * b.n)
RAbs(a) == [n |-> Abs(a.n), d |-> a.d]
RLe(a, b) == ~IsNaN(a) /\ ~IsNaN(b) /\ a.n * b.d <= b.n * a.d
RPos(a) == ~IsNaN(a) /\ a.n > 0

\* the sum of f[x] over the finite set S, for integer-valued f
RECURSIVE SumInt(_, _)
SumInt(f, S) ==
    IF S = {} THEN 0
    ELSE LET x == CHOOSE y \in S : TRUE IN f[x] + SumInt(f, S \ {x})

\* the same for rational-valued f
RECURSIVE SumRat(_, _)
SumRat(f, S) ==
    IF S = {} THEN RInt(0)
    ELSE LET x == CHOOSE y \in S : TRUE IN RAdd(f[x], SumRat(f, S \ {x}))

\* math.log on the positive integers, in thousandths (rounded)
LnTable == << 0, 693, 1099, 1386, 1609, 1792, 1946, 2079, 2197, 2303,
              2398, 2485, 2565, 2639, 2708, 2773, 2833, 2890, 2944, 2996,
              3045, 3091, 3135, 3178, 3219, 3258, 3296, 3332, 3367, 3401,
              3434, 3466, 3497, 3526, 3555, 3584, 3611, 3638, 3664, 3689 >>
\* math.log raises ValueError outside its domain
LogDefined(x) == x >= 1
math_log(x) == LnTable[x]

(***************************************************************************)
(* Worksheet cells: None, a string, or a number.                           *)
(***************************************************************************)
NoneCell == [k |-> "none", s |-> <<>>, v |-> 0]
StrCell(t) == [k |-> "str", s |-> t, v |-> 0]
NumCell(x) == [k |-> "num", s |-> <<>>, v |-> x]

\* str.strip()
strip(s) ==
    LET lead == Run(s, 1, Whitespace)
        rest == SubSeq(s, lead + 1, Len(s))
        keep == CHOOSE m \in 0..Len(rest) :
                    /\ (m = 0 \/ rest[m] \notin Whitespace)
                    /\ \A j \in (m + 1)..Len(rest) : rest[j] \in Whitespace
    IN  SubSeq(rest, 1, keep)

DigitVal(ch) ==
    CASE ch = "0" -> 0 [] ch = "1" -> 1 [] ch = "2" -> 2 [] ch = "3" -> 3
      [] ch = "4" -> 4 [] ch = "5" -> 5 [] ch = "6" -> 6 [] ch = "7" -> 7
      [] ch = "8" -> 8 [] ch = "9" -> 9

RECURSIVE DigitsVal(_)
DigitsVal(ds) ==
    IF ds = <<>> THEN 0
    ELSE 10 * DigitsVal(SubSeq(ds, 1, Len(ds) - 1)) + DigitVal(ds[Len(ds)])

\* float(val) on a string, for integer literals (optional sign, digits,
\* surrounding whitespace); ok = FALSE stands for ValueError
float_str(s) ==
    LET t == strip(s)
        signed == t # <<>> /\ t[1] \in {"+", "-"}
        ds == IF signed THEN SubSeq(t, 2, Len(t)) ELSE t
    IN  IF ds # <<>> /\ \A i \in 1..Len(ds) : ds[i] \in Digits
        THEN [ok |-> TRUE,
              v |-> IF signed /\ t[1] = "-" THEN -DigitsVal(ds) ELSE DigitsVal(ds)]
        ELSE [ok |-> FALSE, v |-> 0]

\* lines 239-246: the count read from one cell of a sample column
Coerce(val) ==
    IF val.k = "none" \/ (val.k = "str" /\ strip(val.s) = <<>>) THEN 0
    ELSE IF val.k = "num" THEN val.v
    ELSE IF float_str(val.s).ok THEN float_str(val.s).v ELSE 0

(***************************************************************************)
(* Inputs: column names, headers, taxonomic labels, cell values.           *)
(***************************************************************************)
N_s1 == <<"s","1">>
N_s2 == <<"s","2">>
N_phylum_x == <<"p","h","y","l","u","m","_","x">>
N_genus_x == <<"g","e","n","u","s","_","x">>
N_Order == <<"O","r","d","e","r">>
N_suh_a_1 == <<"s","u","h","_","a","/","1">>
N_kan_b_3_20 == <<"K","a","n","_","b","/","3","/","2","0">>
N_s_a_1 == <<"s","_","a","/","1">>
N_suh_a_1_nl == <<"s","u","h","_","a","/","1","\n">>
N_lat == <<"l","a","t">>
N_B1_A == <<"B","1"," ","A">>
N_B1_C == <<"B","1"," ","C">>
N_order_x == <<"o","r","d","e","r","_","x">>
N_family == <<"f","a","m","i","l","y">>
N_species == <<"s","p","e","c","i","e","s">>
N_kingdom == <<"k","i","n","g","d","o","m">>
N_order == <<"o","r","d","e","r">>
N_genus == <<"g","e","n","u","s">>
N_lon == <<"l","o","n">>
N_B2_A == <<"B","2"," ","A">>

\* the column names of the headers handed to the classifier on its own
ColNames == { N_s1, N_s2, N_phylum_x, N_genus_x, N_Order, N_suh_a_1,
              N_kan_b_3_20, N_s_a_1, N_suh_a_1_nl, N_lat }

RECURSIVE SeqsUpTo(_, _)
SeqsUpTo(S, n) ==
    IF n = 0 THEN { <<>> }
    ELSE LET shorter == SeqsUpTo(S, n - 1)
         IN  shorter \cup { Append(q, x) : q \in { t \in shorter : Len(t) = n - 1 }, x \in S }

\* the worksheets a run of main reads: two samples with rank columns, one
\* sample with no rank column, three samples of two treatments, and two
\* headers without any sample column
HeaderTwo == << N_B1_A, N_B1_C, N_order_x, N_family, N_genus_x, N_species >>
HeaderOne == << N_suh_a_1, N_kingdom >>
HeaderTaxFirst == << N_order, N_lat >>
HeaderPlain == << N_lat, N_lon >>
HeaderThree == << N_B1_A, N_B2_A, N_B1_C, N_order_x >>
MainHeaders == { HeaderTwo, HeaderOne, HeaderThree, HeaderTaxFirst, HeaderPlain }

T_Col == <<"C","o","l">>
T_Dip == <<"D","i","p">>
T_Car == <<"C","a","r">>
T_Sta == <<"S","t","a">>
T_Mus == <<"M","u","s">>
T_Cb == <<"C","b">>
T_Mu == <<"M","u">>
T_NA == <<"N","A">>
T_Cbn == <<"C","b","n">>

\* the taxonomic labels of a row: rank name -> cell
Lineage(o, f, g, sp) ==
    [r \in RankNames |->
        IF r = N_order THEN o ELSE IF r = N_family THEN f
        ELSE IF r = N_genus THEN g
        ELSE IF r = N_species THEN sp ELSE NoneCell]

Lineages ==
    { Lineage(StrCell(T_Col), StrCell(T_Car), StrCell(T_Cb), StrCell(T_Cbn)),
      Lineage(StrCell(T_Col), StrCell(T_Sta), StrCell(T_NA), NoneCell),
      Lineage(StrCell(T_Dip), StrCell(T_Mus), StrCell(T_Mu), StrCell(<<>>)) }

\* what a cell of a count column may hold
CellValues ==
    { NoneCell, StrCell(<<" ">>), StrCell(<<"n","/","a">>), StrCell(<<" ","3">>),
      NumCell(-1), NumCell(0), NumCell(2), NumCell(5) }

\* the rank a column name stands for (any case, _x/_y suffix), if any
RankOfColumn(name) ==
    LET low == Lower(name)
    IN  { r \in RankNames : low \in { r, r \o <<"_","x">>, r \o <<"_","y">> } }

\* the rows a worksheet with header hdr may hold: a lineage in its rank
\* columns, any cell value in every other column
RowsOf(hdr) ==
    LET free == { i \in 1..Len(hdr) : RankOfColumn(hdr[i]) = {} }
    IN  { [i \in 1..Len(hdr) |->
              IF i \in free THEN cells[i]
              ELSE lin[CHOOSE r \in RankOfColumn(hdr[i]) : TRUE]] :
          lin \in Lineages, cells \in [free -> CellValues] }

(***************************************************************************)
(* main: header, rank columns, sample metadata.                            *)
(***************************************************************************)
Range(q) == { q[i] : i \in 1..Len(q) }

\* col_idx = {name: i for i, name in enumerate(header)}: a repeated name
\* keeps its last position (positions are 1-based here)
col_idx(hdr) ==
    [name \in Range(hdr) |->
        CHOOSE i \in 1..Len(hdr) :
            hdr[i] = name /\ \A j \in (i + 1)..Len(hdr) : hdr[j] # name]

NoCol == << "<None>" >>

pick_tax_col(cols, base) ==
    IF base \o <<"_","x">> \in cols THEN base \o <<"_","x">>
    ELSE IF base \in cols THEN base
    ELSE IF base \o <<"_","y">> \in cols THEN base \o <<"_","y">>
    ELSE NoCol

\* row[rank_indices[rank]] if rank_indices[rank] is not None else None
rank_val(hdr, r, rank) ==
    LET col == pick_tax_col(Range(hdr), rank)
    IN  IF col = NoCol THEN NoneCell ELSE r[col_idx(hdr)[col]]

\* the position of the first occurrence of ch in s, 0 when there is none
Find(s, ch) ==
    IF \E i \in 1..Len(s) : s[i] = ch
    THEN CHOOSE i \in 1..Len(s) : s[i] = ch /\ \A j \in 1..(i - 1) : s[j] # ch
    ELSE 0

Contains(s, sub) ==
    \E i \in 1..(Len(s) - Len(sub) + 1) : SubSeq(s, i, i + Len(sub) - 1) = sub

DeepWords == { <<"1","0","-","2","0">>, <<"2","0","c","m">>,
               <<"b","o","t","t","o","m">>, <<"d","e","e","p">>,
               <<"b","o","t","t">> }

parse_sample_name(name) ==
    LET slash == Find(name, "/")
        left == IF slash > 0 THEN SubSeq(name, 1, slash - 1) ELSE name
        rep == IF slash > 0 THEN strip(SubSeq(name, slash + 1, Len(name))) ELSE <<>>
        under == Find(left, "_")
    IN  [sample |-> name,
         site |-> IF under > 0 THEN SubSeq(left, 1, under - 1) ELSE left,
         plot |-> IF under > 0 THEN SubSeq(left, under + 1, Len(left)) ELSE <<>>,
         rep |-> rep,
         depth |-> IF \E w \in DeepWords : Contains(Lower(name), w)
                   THEN "10-20" ELSE "0-10"]

\* get_treatment_metadata: the short treatment label of each sample of the
\* hard-coded table, grouped by label
treatment_rows ==
  { [treatment |-> "20t_top", samples |-> { <<"B","1","_","A">>, <<"B","2","_","A">>, <<"B","3","_","A">>, <<"B","4","_","A">> }],
    [treatment |-> "control", samples |-> { <<"B","1","_","C">>, <<"B","2","_","C">>, <<"B","3","_","C">>, <<"B","4","_","C">> }],
    [treatment |-> "6t_top", samples |-> { <<"B","1","_","F">>, <<"B","2","_","F">>, <<"B","3","_","F">>, <<"B","4","_","F">> }],
    [treatment |-> "20t_rt", samples |-> { <<"B","1","_","A","R","T">>, <<"B","2","_","A","R","T">>, <<"B","3","_","A","R","T">>, <<"B","4","_","A","R","T">> }],
    [treatment |-> "rt_only", samples |-> { <<"B","1","_","R","T">>, <<"B","2","_","R","T">>, <<"B","3","_","R","T">>, <<"B","4","_","R","T">> }],
    [treatment |-> "ref", samples |-> { <<"S","k","o","v","_","1","A">>, <<"S","k","o","v","_","1","B">>, <<"S","k","o","v","_","2","A">>, <<"S","k","o","v","_","3","A">> }] }

\* the value of a missing label (None)
NoLabel == "<None>"

\* treat_meta.get(x, {}).get("treatment")
treatment_of(sample_norm) ==
    IF \E t \in treatment_rows : sample_norm \in t.samples
    THEN (CHOOSE t \in treatment_rows : sample_norm \in t.samples).treatment
    ELSE NoLabel

\* str.replace(" ", "_")
sample_norm_of(name) == [i \in 1..Len(name) |-> IF name[i] = " " THEN "_" ELSE name[i]]

\* one row of meta_df after lines 205-206
meta_row(rec) ==
    [sample |-> rec.sample, site |-> rec.site, plot |-> rec.plot, rep |-> rec.rep,
     depth |-> rec.depth, sample_norm |-> sample_norm_of(rec.sample),
     treatment |-> treatment_of(sample_norm_of(rec.sample))]

\* the columns of pd.DataFrame(records): those of the records, none when
\* the list is empty
DataFrameColumns(records) ==
    IF records = <<>> THEN {} ELSE DOMAIN records[1]

(***************************************************************************)
(* main: the row loop (lines 230-268).                                     *)
(***************************************************************************)
\* val not in (None, "", "NA")
Labelled(val) == ~(val.k = "none" \/ (val.k = "str" /\ val.s \in { <<>>, T_NA }))

\* counter[key] += x
CounterAdd(c, key, x) ==
    [t \in DOMAIN c \cup {key} |->
        (IF t \in DOMAIN c THEN c[t] ELSE 0) + (IF t = key THEN x ELSE 0)]

\* cnt > 0.0 of line 249
CountsAsPresentBug(cnt) == cnt > 2
CountsAsPresent(cnt) == cnt > 0

\* one call of math.log: where it is made and on what
LogCall(site, arg) == [site |-> site, arg |-> arg]

\* lines 247-263 for one sample column: acc holds the accumulators and the
\* row's counts so far, and whether math.log raised at line 252
accumulate_cell(acc, sname, cnt, order_val, family_val, genus_val, species_val) ==
    IF ~CountsAsPresent(cnt)
    THEN [acc EXCEPT !.row_counts = Append(@, cnt), !.row_sum = @ + cnt]
    ELSE IF ~LogDefined(cnt)
    THEN [acc EXCEPT !.row_counts = Append(@, cnt), !.row_sum = @ + cnt,
                     !.libsize[sname] = @ + cnt,
                     !.richness[sname] = @ + 1,
                     !.logged = @ \cup { LogCall("row", cnt) },
                     !.raised = TRUE]
    ELSE [acc EXCEPT
            !.logged = @ \cup { LogCall("row", cnt) },
            !.row_counts = Append(@, cnt),
            !.row_sum = @ + cnt,
            !.libsize[sname] = @ + cnt,
            !.richness[sname] = @ + 1,
            !.sum_c_logc[sname] = @ + cnt * math_log(cnt),
            !.species_sets[sname] =
                IF Labelled(species_val) THEN @ \cup {species_val.s} ELSE @,
            !.genus_sets[sname] =
                IF Labelled(genus_val) THEN @ \cup {genus_val.s} ELSE @,
            !.agg_by_genus[sname] =
                IF Labelled(genus_val) THEN CounterAdd(@, genus_val.s, cnt) ELSE @,
            !.family_sets[sname] =
                IF Labelled(family_val) THEN @ \cup {family_val.s} ELSE @,
            !.agg_by_family[sname] =
                IF Labelled(family_val) THEN CounterAdd(@, family_val.s, cnt) ELSE @,
            !.agg_by_order[sname] =
                IF Labelled(order_val) THEN CounterAdd(@, order_val.s, cnt) ELSE @]

\* the loop of line 237 over the sample columns, from sample k on; it ends
\* early when line 252 raises
RECURSIVE accumulate_row(_, _, _, _, _)
accumulate_row(acc, hdr, cols, r, k) ==
    IF k > Len(cols) \/ acc.raised THEN acc
    ELSE accumulate_row(
           accumulate_cell(acc, cols[k], Coerce(r[col_idx(hdr)[cols[k]]]),
                           rank_val(hdr, r, N_order), rank_val(hdr, r, N_family),
                           rank_val(hdr, r, N_genus), rank_val(hdr, r, N_species)),
           hdr, cols, r, k + 1)

(***************************************************************************)
(* main: alpha diversity (lines 270-287).                                  *)
(***************************************************************************)
\* the guard of line 277
ShannonDefined(N, rich) == N > 0 /\ rich > 0

\* the guard of line 285
EvennessDefinedBug(rich) == rich >= 1
EvennessDefined(rich) == rich > 1

\* H_i of lines 276-280, in thousandths
shannon_ofBug(N, rich, S) ==
    IF ShannonDefined(N, rich)
    THEN RSub(RInt(math_log(N)), RInt(S))
    ELSE RInt(0)
shannon_of(N, rich, S) ==
    IF ShannonDefined(N, rich)
    THEN RSub(RInt(math_log(N)), RDiv(RInt(S), RInt(N)))
    ELSE RInt(0)

\* lines 284-287
evenness_of(H, rich) ==
    IF EvennessDefined(rich) THEN RDiv(H, RInt(math_log(rich))) ELSE NaN

\* the calls of math.log that lines 275-287 make
alpha_log_calls(cols, lib, rich) ==
    { LogCall("N", lib[s]) : s \in { t \in Range(cols) : ShannonDefined(lib[t], rich[t]) } }
    \cup { LogCall("richness", rich[s]) : s \in { t \in Range(cols) : EvennessDefined(rich[t]) } }

alpha_of(cols, lib, rich, sclc) ==
    [s \in Range(cols) |->
        LET H == shannon_of(lib[s], rich[s], sclc[s])
        IN  [library_size |-> lib[s],
             observed_asvs |-> rich[s],
             shannon |-> H,
             pielou_evenness |-> evenness_of(H, rich[s])]]

(***************************************************************************)
(* main: composition by rank (lines 305-336).                              *)
(***************************************************************************)
\* sorted(set(k for s in agg.values() for k in s)), as a set
TaxaOf(agg) == UNION { DOMAIN agg[s] : s \in DOMAIN agg }

\* total = float(sum(agg[s].values()))
RankTotalBug(counter) == Cardinality(DOMAIN counter)
RankTotal(counter) == SumInt(counter, DOMAIN counter)

\* the relative-abundance table of one rank: sample -> taxon -> fraction
composition_of(agg) ==
    [s \in DOMAIN agg |->
        [t \in TaxaOf(agg) |->
            IF RankTotal(agg[s]) > 0 /\ t \in DOMAIN agg[s]
            THEN Rat(agg[s][t], RankTotal(agg[s]))
            ELSE RInt(0)]]

\* lines 337-348: groupby("treatment").mean() of a relative-abundance table.
\* Rows whose label is missing belong to no group; the taxon columns are
\* those of the table (no taxon of the model is named like a metadata
\* column).
group_meanBug(table, meta) ==
    LET labels == { meta[i].treatment : i \in 1..Len(meta) } \ { NoLabel }
        members(g) == { meta[i].sample : i \in { k \in 1..Len(meta) : meta[k].treatment = g } }
        taxa == UNION { DOMAIN table[s] : s \in DOMAIN table }
    IN  [g \in labels |->
            [t \in taxa |->
                RDiv(SumRat([s \in members(g) |-> table[s][t]], members(g)),
                     RInt(Len(meta)))]]
group_mean(table, meta) ==
    LET labels == { meta[i].treatment : i \in 1..Len(meta) } \ { NoLabel }
        members(g) == { meta[i].sample : i \in { k \in 1..Len(meta) : meta[k].treatment = g } }
        taxa == UNION { DOMAIN table[s] : s \in DOMAIN table }
    IN  [g \in labels |->
            [t \in taxa |->
                RDiv(SumRat([s \in members(g) |-> table[s][t]], members(g)),
                     RInt(Cardinality(members(g))))]]

\* DataFrame.empty of a grouped table: it always has its treatment column
frame_empty(grouped) == DOMAIN grouped = {}

(***************************************************************************)
(* The pairwise distance engine (lines 354-375).                           *)
(***************************************************************************)
\* a vector is a function from its feature index to a rational
VecSum(u) == SumRat(u, DOMAIN u)

\* the numerator of Bray-Curtis: np.abs(u - v).sum()
BrayNumeratorBug(u, v) == RAbs(RSub(VecSum(u), VecSum(v)))
BrayNumerator(u, v) == VecSum([i \in DOMAIN u |-> RAbs(RSub(u[i], v[i]))])

_bray(u, v) ==
    LET denom == RAdd(VecSum(u), VecSum(v))
    IN  IF denom = RInt(0) THEN RInt(0)
        ELSE RDiv(BrayNumerator(u, v), denom)

\* np.logical_or(u > 0, v > 0).sum()
JaccardUnionBug(u, v) == Cardinality(DOMAIN u)
JaccardUnion(u, v) == Cardinality({ i \in DOMAIN u : RPos(u[i]) \/ RPos(v[i]) })

_jaccard(u, v) ==
    LET inter == Cardinality({ i \in DOMAIN u : RPos(u[i]) /\ RPos(v[i]) })
        union == JaccardUnion(u, v)
    IN  IF union > 0 THEN RSub(RInt(1), Rat(inter, union)) ELSE RInt(0)

EmptyFrame == [idx |-> <<>>, mat |-> <<>>]

\* dist_func(u, v), for the function passed by name
call_dist(dist_func, u, v) ==
    IF dist_func = "_bray" THEN _bray(u, v) ELSE _jaccard(u, v)

\* _pairwise: zeros, then the upper triangle mirrored
_pairwise(df_vals, idx, dist_func) ==
    LET n == Len(idx)
    IN  [idx |-> idx,
         mat |-> [i \in 1..n |-> [j \in 1..n |->
                    IF i < j THEN call_dist(dist_func, df_vals[i], df_vals[j])
                    ELSE IF j < i THEN call_dist(dist_func, df_vals[j], df_vals[i])
                    ELSE RInt(0)]]]

\* (df > 0).astype(float)
Presence(u) == [i \in DOMAIN u |-> IF RPos(u[i]) THEN RInt(1) ELSE RInt(0)]

\* lines 351-375: genus-level Bray-Curtis and Jaccard
genus_beta(cols, comp_genus) ==
    LET genus_rel == [i \in 1..Len(cols) |-> comp_genus[cols[i]]]
        genus_presence == [i \in 1..Len(cols) |-> Presence(genus_rel[i])]
    IN  [bc |-> _pairwise(genus_rel, cols, "_bray"),
         jaccard |-> _pairwise(genus_presence, cols, "_jaccard")]

\* lines 503-511 and 520-521: ASV-level Bray-Curtis and Jaccard
asv_beta(cols, buffer) ==
    IF buffer = <<>>
    THEN [bc |-> EmptyFrame, jaccard |-> EmptyFrame]
    ELSE
      LET m == Len(buffer)
          sample_sums == [i \in 1..Len(cols) |->
                             SumInt([a \in 1..m |-> buffer[a][i]], 1..m)]
          asv_rel_samples ==
              [i \in 1..Len(cols) |-> [a \in 1..m |->
                  IF sample_sums[i] # 0 THEN Rat(buffer[a][i], sample_sums[i])
                  ELSE RInt(0)]]
          asv_presence ==
              [i \in 1..Len(cols) |-> [a \in 1..m |->
                  IF buffer[a][i] > 0 THEN RInt(1) ELSE RInt(0)]]
      IN  [bc |-> _pairwise(asv_rel_samples, cols, "_bray"),
           jaccard |-> _pairwise(asv_presence, cols, "_jaccard")]

(***************************************************************************)
(* Group statistics on a distance matrix (lines 377-500).  A frame is      *)
(* [idx, mat]; meta is a sequence of rows, one per sample; a group column  *)
(* is the name of a field of those rows.                                   *)
(***************************************************************************)
RMul(a, b) == Rat(a.n * b.n, a.d * b.d)

\* meta.columns
meta_columns(meta) == IF meta = <<>> THEN {} ELSE DOMAIN meta[1]

\* meta.set_index("sample")[group_col].to_dict() followed by .get(s), and
\* .reindex(...): the label of sample s, None when s has no row
group_of(meta, group_col, s) ==
    IF \E k \in 1..Len(meta) : meta[k].sample = s
    THEN (CHOOSE r \in Range(meta) : r.sample = s)[group_col]
    ELSE NoLabel

\* the pairs (i, j), i < j, of 1..n
UpperPairs(n) == { p \in (1..n) \X (1..n) : p[1] < p[2] }

\* in the order of the nested loops: i outer, j inner
pairs_in_order(n) ==
    LET before(p) == { q \in UpperPairs(n) :
                         q[1] < p[1] \/ (q[1] = p[1] /\ q[2] < p[2]) }
    IN  [k \in 1..Cardinality(UpperPairs(n)) |->
            CHOOSE p \in UpperPairs(n) : Cardinality(before(p)) = k - 1]

\* line 390
comparison_ofBug(g1, g2) == IF g1 = g2 THEN "within" ELSE "between"
comparison_of(g1, g2) == IF g1 # NoLabel /\ g1 = g2 THEN "within" ELSE "between"

\* summarize_within_between (lines 377-392): the long table, as a sequence
summarize_within_between(dist_df, meta, group_col) ==
    LET samples_idx == dist_df.idx
        label(s) == IF group_col \in meta_columns(meta)
                    THEN group_of(meta, group_col, s) ELSE NoLabel
        kept == SelectSeq(pairs_in_order(Len(samples_idx)),
                          LAMBDA p : ~IsNaN(dist_df.mat[p[1]][p[2]]))
    IN  [k \in 1..Len(kept) |->
            [sample1 |-> samples_idx[kept[k][1]],
             sample2 |-> samples_idx[kept[k][2]],
             comparison |-> comparison_of(label(samples_idx[kept[k][1]]),
                                          label(samples_idx[kept[k][2]])),
             distance |-> dist_df.mat[kept[k][1]][kept[k][2]]]]

\* line 394: the genus-level long table, empty when there is no matrix
frame_is_empty(frame) == frame.idx = <<>>

\* the elements of a set of integers, ascending
SortedSeq(S) ==
    [k \in 1..Cardinality(S) |->
        CHOOSE x \in S : Cardinality({ y \in S : y < x }) = k - 1]

\* the permutations of 1..m
Permutations(m) == { f \in [1..m -> 1..m] : \A i, j \in 1..m : f[i] = f[j] => i = j }

\* rng.shuffle(perm_labels): what the generator does to an array of length m
\* is a permutation of its positions; shorter arrays follow the same
\* permutation's order of their positions
shuffleBug(labs, pi) == [i \in 1..Len(labs) |-> labs[1]]
shuffle(labs, pi) ==
    LET k == Len(labs)
    IN  [i \in 1..k |->
            labs[CHOOSE j \in 1..k :
                     Cardinality({ h \in 1..k : pi[h] < pi[j] }) = i - 1]]

\* how many times each label occurs in an array of labels
label_counts(labs) ==
    [g \in Range(labs) |-> Cardinality({ i \in 1..Len(labs) : labs[i] = g })]

\* the label shuffles one call of run_permanova draws: the generator is
\* seeded anew in every call (line 457), so every call sees the same stream
Streams(m) == [1..perms -> Permutations(m)]

\* (dm[...][tri] ** 2).sum() over the pairs i < j of the positions P
ss_pairs(dm, P) ==
    LET pairs == { p \in P \X P : p[1] < p[2] }
    IN  SumRat([p \in pairs |-> RMul(dm[p[1]][p[2]], dm[p[1]][p[2]])], pairs)

\* lines 442-449 and 463-470: pos are the positions of the labelled samples
\* in the matrix, labs their (possibly shuffled) labels
within_ss(dm, pos, labs) ==
    LET members(g) == { pos[k] : k \in { h \in 1..Len(pos) : labs[h] = g } }
    IN  SumRat([g \in Range(labs) |->
                   IF Cardinality(members(g)) < 2 THEN RInt(0)
                   ELSE RDiv(ss_pairs(dm, members(g)), RInt(Cardinality(members(g))))],
               Range(labs))

\* the guard of lines 454 and 472
StatDefined(ss_w, df1, df2) == df1 > 0 /\ df2 > 0 /\ RPos(ss_w)

\* lines 450-455 and 471-473
pseudoF_ofBug(total_ss, ss_w, df1, df2) ==
    IF StatDefined(ss_w, df1, df2)
    THEN RDiv(RDiv(total_ss, RInt(df1)), RDiv(ss_w, RInt(df2)))
    ELSE NaN
pseudoF_of(total_ss, ss_w, df1, df2) ==
    IF StatDefined(ss_w, df1, df2)
    THEN RDiv(RDiv(RSub(total_ss, ss_w), RInt(df1)), RDiv(ss_w, RInt(df2)))
    ELSE NaN

\* the dict a call returns, with the length of perm_F, the number of its
\* entries >= pseudoF, the number of shuffles performed and the label
\* counts of each shuffled array kept beside it
nan_resultBug(method, group_col) ==
    [method |-> method, group |-> group_col, pvalue |-> RInt(1), pseudoF |-> NaN,
     shuffled |-> 0, perm_F_len |-> 0, perm_F_ge |-> 0, perm_labels |-> <<>>]
nan_result(method, group_col) ==
    [method |-> method, group |-> group_col, pvalue |-> NaN, pseudoF |-> NaN,
     shuffled |-> 0, perm_F_len |-> 0, perm_F_ge |-> 0, perm_labels |-> <<>>]

\* lines 472-473: the shuffles whose statistic is appended to perm_F
perm_F_appended(perm_within, df1, df2) ==
    { t \in 1..Len(perm_within) : StatDefined(perm_within[t], df1, df2) }

\* (perm_F >= pseudoF).sum()
perm_F_ge(pseudoF, total_ss, perm_within, df1, df2) ==
    Cardinality({ t \in perm_F_appended(perm_within, df1, df2) :
                    RLe(pseudoF, pseudoF_of(total_ss, perm_within[t], df1, df2)) })

\* lines 474-478
permutation_pvalue(pseudoF, len_perm_F, n_ge) ==
    IF IsNaN(pseudoF) \/ len_perm_F = 0 THEN NaN
    ELSE Rat(1 + n_ge, 1 + len_perm_F)

permanova_record(pseudoF, total_ss, perm_within, perm_labels, df1, df2, group_col) ==
    [method |-> "permanova_fallback",
     group |-> group_col,
     pvalue |-> permutation_pvalue(
                    pseudoF,
                    Cardinality(perm_F_appended(perm_within, df1, df2)),
                    perm_F_ge(pseudoF, total_ss, perm_within, df1, df2)),
     pseudoF |-> pseudoF,
     shuffled |-> Len(perm_within),
     perm_F_len |-> Cardinality(perm_F_appended(perm_within, df1, df2)),
     perm_F_ge |-> perm_F_ge(pseudoF, total_ss, perm_within, df1, df2),
     perm_labels |-> perm_labels]

\* lines 435-479
permanova_test(dm, pos, groups, total_ss, df1, df2, group_col, shuffles) ==
    permanova_record(
        pseudoF_of(total_ss, within_ss(dm, pos, groups), df1, df2),
        total_ss,
        [t \in 1..Len(shuffles) |-> within_ss(dm, pos, shuffle(groups, shuffles[t]))],
        [t \in 1..Len(shuffles) |-> label_counts(shuffle(groups, shuffles[t]))],
        df1, df2, group_col)

\* the guard of line 433
TooFew(n, k) == n < 3 \/ k < 2

\* lines 430-434: pos are the positions of the samples with a label
permanova_fallback(dm, pos, labs, group_col, shuffles) ==
    IF TooFew(Len(pos), Cardinality({ labs[pos[k]] : k \in 1..Len(pos) }))
    THEN nan_result("permanova", group_col)
    ELSE permanova_test(dm, pos, [k \in 1..Len(pos) |-> labs[pos[k]]],
                        RDiv(ss_pairs(dm, Range(pos)), RInt(Len(pos))),
                        Cardinality({ labs[pos[k]] : k \in 1..Len(pos) }) - 1,
                        Len(pos) - Cardinality({ labs[pos[k]] : k \in 1..Len(pos) }),
                        group_col, shuffles)

\* what the optional skbio path of lines 421-427 may do: fail to import,
\* raise, or return.  skbio's permanova rejects a grouping with a missing
\* label, with a single group, or with as many groups as samples, so it
\* returns only on other groupings.
SkbioOutcomes == { "ImportError", "raises", "returns" }
skbio_accepts(labs) ==
    /\ \A i \in 1..Len(labs) : labs[i] # NoLabel
    /\ Cardinality(Range(labs)) >= 2
    /\ Cardinality(Range(labs)) < Len(labs)

\* a float computed by skbio: a number, not NaN, of unknown value
SkbioValue == [n |-> 1, d |-> 0 - 1]

\* run_permanova (lines 416-479)
run_permanova(dist_df, meta, group_col, skbio, shuffles) ==
    IF frame_is_empty(dist_df) \/ group_col \notin meta_columns(meta)
    THEN nan_result("permanova", group_col)
    ELSE IF skbio = "returns"
            /\ skbio_accepts([i \in 1..Len(dist_df.idx) |->
                                 group_of(meta, group_col, dist_df.idx[i])])
    THEN [method |-> "permanova", group |-> group_col,
          pvalue |-> SkbioValue, pseudoF |-> SkbioValue,
          shuffled |-> 0, perm_F_len |-> 0, perm_F_ge |-> 0, perm_labels |-> <<>>]
    ELSE permanova_fallback(
            dist_df.mat,
            SortedSeq({ i \in 1..Len(dist_df.idx) :
                          group_of(meta, group_col, dist_df.idx[i]) # NoLabel }),
            [i \in 1..Len(dist_df.idx) |-> group_of(meta, group_col, dist_df.idx[i])],
            group_col, shuffles)

\* groups.dropna().unique(): the labels in the order of first appearance
unique_labels(labs) ==
    LET firsts == SortedSeq({ i \in 1..Len(labs) :
                               labs[i] # NoLabel /\ \A j \in 1..(i - 1) : labs[j] # labs[i] })
    IN  [k \in 1..Len(firsts) |-> labs[firsts[k]]]

\* dist_df.loc[idx, idx] for the samples at the positions P
sub_frame(dist_df, P) ==
    LET ps == SortedSeq(P)
    IN  [idx |-> [k \in 1..Len(ps) |-> dist_df.idx[ps[k]]],
         mat |-> [a \in 1..Len(ps) |-> [b \in 1..Len(ps) |-> dist_df.mat[ps[a]][ps[b]]]]]

\* the guard of line 492
PairTooSmallBug(n) == n < 2
PairTooSmall(n) == n < 3

\* lines 490-499 for the levels g1, g2 and the positions P of their samples;
\* ran tells whether run_permanova was called, samples on which samples
pair_record(dist_df, meta, group_col, g1, g2, P, skbio, shuffles) ==
    IF PairTooSmall(Cardinality(P))
    THEN [group |-> group_col, g1 |-> g1, g2 |-> g2, n |-> Cardinality(P),
          result |-> nan_result("permanova", group_col),
          ran |-> FALSE, samples |-> {}]
    ELSE [group |-> group_col, g1 |-> g1, g2 |-> g2, n |-> Cardinality(P),
          result |-> run_permanova(
                        sub_frame(dist_df, P),
                        SelectSeq(meta, LAMBDA r : r.sample \in { dist_df.idx[i] : i \in P }),
                        group_col, skbio, shuffles),
          ran |-> TRUE, samples |-> { dist_df.idx[i] : i \in P }]

pairwise_records(dist_df, meta, group_col, labs, uniq, skbio, shuffles) ==
    [k \in 1..Len(pairs_in_order(Len(uniq))) |->
        pair_record(dist_df, meta, group_col,
                    uniq[pairs_in_order(Len(uniq))[k][1]],
                    uniq[pairs_in_order(Len(uniq))[k][2]],
                    { i \in 1..Len(labs) :
                        labs[i] \in { uniq[pairs_in_order(Len(uniq))[k][1]],
                                      uniq[pairs_in_order(Len(uniq))[k][2]] } },
                    skbio, shuffles)]

\* pairwise_permanova (lines 481-500)
pairwise_permanova(dist_df, meta, group_col, skbio, shuffles) ==
    IF frame_is_empty(dist_df) \/ group_col \notin meta_columns(meta) THEN <<>>
    ELSE pairwise_records(
            dist_df, meta, group_col,
            [i \in 1..Len(dist_df.idx) |-> group_of(meta, group_col, dist_df.idx[i])],
            unique_labels([i \in 1..Len(dist_df.idx) |->
                              group_of(meta, group_col, dist_df.idx[i])]),
            skbio, shuffles)

(***************************************************************************)
(* Ordination (lines 531-587) and the workbook (lines 589-649).            *)
(***************************************************************************)
NMDSColumns == << "NMDS1", "NMDS2", "sample", "site", "plot", "rep", "depth", "stress" >>

\* a table of coordinates: its columns, the samples of its rows, whether
\* the optimizer was invoked and which exception, if any, was caught
nmds_empty(invoked, caught) ==
    [columns |-> NMDSColumns, rows |-> <<>>, invoked |-> invoked, caught |-> caught]

\* the except branches of lines 557-559 and 585-587
nmds_exceptBug(invoked, caught) ==
    [columns |-> << "NMDS1", "NMDS2" >>, rows |-> <<>>, invoked |-> invoked, caught |-> caught]
nmds_except(invoked, caught) == nmds_empty(invoked, caught)

\* lines 551-554 and 579-582: coordinates merged with the metadata
nmds_table(rows) ==
    [columns |-> << "NMDS1", "NMDS2", "sample", "site", "plot", "rep", "depth",
                    "sample_norm", "treatment", "stress" >>,
     rows |-> rows, invoked |-> TRUE, caught |-> "none"]

\* lines 532-559
nmds_genus(samples, lib, genera, deps, fit) ==
    IF deps = "missing" THEN nmds_except(FALSE, "ImportError")
    ELSE IF Len(SelectSeq(samples, LAMBDA s : lib[s] > 0)) >= 2 /\ Cardinality(genera) > 0
    THEN IF fit = "raises" THEN nmds_except(TRUE, "Exception")
         ELSE nmds_table(SelectSeq(samples, LAMBDA s : lib[s] > 0))
    ELSE nmds_empty(FALSE, "none")

\* lines 562-587
nmds_asv(samples, buffer, deps, fit) ==
    IF buffer # <<>> /\ Len(samples) >= 2
    THEN IF deps = "missing" THEN nmds_except(FALSE, "ImportError")
         ELSE IF fit = "raises" THEN nmds_except(TRUE, "Exception")
         ELSE nmds_table(samples)
    ELSE nmds_empty(FALSE, "none")

\* the sheets written inside the writer's context (lines 594-616), in order
report_sheets(cmp, dst, buffer) ==
    << "Sample_Metadata", "Alpha_Diversity", "Overall_Taxa_Counts",
       "Composition_Order", "Composition_Family" >>
    \o (IF ~frame_empty(cmp.order_treat) THEN << "Composition_Order_Treatment" >> ELSE <<>>)
    \o (IF ~frame_empty(cmp.family_treat) THEN << "Composition_Family_Treatment" >> ELSE <<>>)
    \o << "Composition_Genus", "BrayCurtis_Genus", "Jaccard_Genus", "NMDS_Genus" >>
    \o (IF dst.dist_genus_long # <<>> THEN << "Distances_Genus" >> ELSE <<>>)
    \o (IF ~frame_is_empty(dst.bc_asv)
        THEN << "BrayCurtis_ASV", "Jaccard_ASV", "NMDS_ASV" >>
             \o (IF dst.dist_asv_long # <<>> THEN << "Distances_ASV" >> ELSE <<>>)
        ELSE <<>>)
    \o << "Distance_Stats" >>

(***************************************************************************)
(* The closing tests and the summary file (lines 651-813).                 *)
(***************************************************************************)
\* alpha_annot["treatment"].fillna("NA"), line 673
fillnaBug(label) == label
fillna(label) == IF label = NoLabel THEN "NA" ELSE label

\* the order sorted() puts the treatment levels in (line 674)
TreatmentOrder == << "20t_rt", "20t_top", "6t_top", "NA", "control", "ref", "rt_only" >>

\* alpha_annot (line 294) for the closing tests: one row per sample with its
\* treatment and the two metrics tested
alpha_annot_of(meta, alph) ==
    [i \in 1..Len(meta) |->
        [sample |-> meta[i].sample,
         treatment |-> meta[i].treatment,
         observed_asvs |-> RInt(alph[meta[i].sample].observed_asvs),
         shannon |-> alph[meta[i].sample].shannon]]

\* lines 673-674: the treatment column filled, and its sorted levels
fill_treatment(annot) ==
    [i \in 1..Len(annot) |-> [annot[i] EXCEPT !.treatment = fillna(@)]]
sorted_levels(annot) ==
    SelectSeq(TreatmentOrder, LAMBDA t : \E i \in 1..Len(annot) : annot[i].treatment = t)

\* line 794: the rows of level t whose metric is not missing
group_values(annot, t, metric) ==
    SelectSeq(annot, LAMBDA r : r.treatment = t /\ ~IsNaN(r[metric]))

\* line 794: a level takes part when it has a value
GroupTakesPartBug(n) == n >= 0
GroupTakesPart(n) == n > 0

\* the levels whose values are handed to kruskal for a metric
kw_levels(annot, treatments, metric) ==
    SelectSeq(treatments, LAMBDA t : GroupTakesPart(Len(group_values(annot, t, metric))))

\* line 795
EnoughGroups(k) == k >= 2

\* line 797: the record of a test, with the levels that took part beside it
\* (stat and pvalue are scipy's)
kw_record(metric, levels) ==
    [metric |-> metric, test |-> "kruskal_treatment", k |-> Len(levels),
     levels |-> levels]

\* lines 790-799: scipy may be missing (the import raises), and kruskal may
\* raise on the first or the second metric (kw_fail = 1, 2; 0: it does
\* not); the except of line 798 ends the loop and keeps what was appended
kw_from(l1, l2, scipy, kw_fail) ==
    IF scipy = "missing" THEN <<>>
    ELSE IF EnoughGroups(Len(l1)) /\ kw_fail = 1 THEN <<>>
    ELSE (IF EnoughGroups(Len(l1)) THEN << kw_record("observed_asvs", l1) >> ELSE <<>>)
         \o (IF EnoughGroups(Len(l2)) /\ kw_fail # 2
             THEN << kw_record("shannon", l2) >> ELSE <<>>)

kruskal_tests(annot, treatments, scipy, kw_fail) ==
    kw_from(kw_levels(annot, treatments, "observed_asvs"),
            kw_levels(annot, treatments, "shannon"), scipy, kw_fail)

\* lines 777-788: Spearman correlations with dna_conc.  Every row of the
\* treatment table has a dna_conc, so a sample has one exactly when it has a
\* treatment; the three metrics are never missing.
correlations(meta, scipy) ==
    IF scipy = "missing"
       \/ Cardinality({ i \in 1..Len(meta) : meta[i].treatment # NoLabel }) <= 2
    THEN <<>>
    ELSE [j \in 1..3 |->
             [metric |-> << "library_size", "observed_asvs", "shannon" >>[j],
              n |-> Cardinality({ i \in 1..Len(meta) : meta[i].treatment # NoLabel })]]

\* ws.max_row of a worksheet opened read-only (line 228): the number of its
\* rows when the file records the sheet's dimensions, None when it does not
NoMaxRow == [sized |-> FALSE, rows |-> 0]
MaxRows(rows_read) == { [sized |-> TRUE, rows |-> rows_read + 1], NoMaxRow }

\* lines 801-811
summary_of(cols, lib, total_rows) ==
    [n_samples_total |-> Len(cols),
     n_samples_nonzero |-> Cardinality({ i \in 1..Len(cols) : lib[cols[i]] > 0 }),
     n_asv_rows |-> total_rows.rows - 1]

NoSummary == [alpha_annot |-> <<>>, treatments |-> <<>>, correlations |-> <<>>,
              kw_tests |-> <<>>, scipy |-> "", kw_fail |-> 0,
              json |-> <<>>, written |-> FALSE]

(***************************************************************************)
(* The state machine.                                                      *)
(***************************************************************************)
\* Counter(): every sample's count is 0 until something is added to it
CounterBug(names) == [s \in names |-> IF s \in DOMAIN libsize THEN libsize[s] ELSE 0]
Counter(names) == [s \in names |-> 0]

NoVectors == [u |-> <<>>, v |-> <<>>, bray |-> NaN, jaccard |-> NaN, done |-> FALSE]
\* main has been run once only
NoRerun == [run |-> 1, stream |-> <<>>, stats |-> <<>>, pc |-> "", err |-> ""]
NoPerm == [dist_df |-> EmptyFrame, meta |-> <<>>, op |-> "none", group_col |-> "",
           long |-> <<>>, result |-> <<>>, pairs |-> <<>>]

\* everything main creates after the header is read, before it is created
Untouched ==
    /\ err = "none"
    /\ sample_cols = <<>>
    /\ meta_df = <<>>
    /\ row = <<>>
    /\ row_counts = <<>>
    /\ row_sum = 0
    /\ consumed = <<>>
    /\ processed = 0
    /\ libsize = <<>> /\ richness = <<>> /\ sum_c_logc = <<>>
    /\ species_sets = <<>> /\ genus_sets = <<>> /\ family_sets = <<>>
    /\ agg_by_order = <<>> /\ agg_by_genus = <<>> /\ agg_by_family = <<>>
    /\ asv_counts = <<>>
    /\ alpha = <<>>
    /\ comp = <<>>
    /\ dist = <<>>
    /\ logged = {}
    /\ nmds = <<>>
    /\ report = <<>>
    /\ first_run = NoRerun

\* the two preparation scripts have not been run
NoFilterRun == asv_table = <<>> /\ tax_table = <<>>
NoChunkedRun == files = <<>> /\ chunks = <<>> /\ chunk_i = 0 /\ totals = <<>>

\* a run of main on one of the worksheets
Init ==
    /\ pc = "classify"
    /\ header \in MainHeaders
    /\ uv = NoVectors
    /\ perm = NoPerm
    /\ Untouched
    /\ NoFilterRun /\ NoChunkedRun
    /\ summary = <<>>

\* determine_sample_columns on its own, on every header up to MaxCols columns
InitClassify ==
    /\ pc = "classify"
    /\ header \in SeqsUpTo(ColNames, MaxCols)
    /\ uv = NoVectors
    /\ perm = NoPerm
    /\ Untouched
    /\ NoFilterRun /\ NoChunkedRun
    /\ summary = <<>>

\* line 199
Classify ==
    /\ pc = "classify"
    /\ sample_cols' = determine_sample_columns(header)
    /\ pc' = "meta"
    /\ UNCHANGED << err, header, meta_df, row, row_counts, row_sum, consumed,
                    processed, libsize, richness, sum_c_logc, species_sets,
                    genus_sets, family_sets, agg_by_order, agg_by_genus,
                    agg_by_family, asv_counts, alpha, comp, dist, uv, logged, nmds, report, perm, first_run, summary,
                    asv_table, tax_table, files, chunks, chunk_i, totals >>

\* lines 202-225: the metadata table, then the empty accumulators.
\* meta_df["sample"] raises KeyError when the table has no such column.
BuildMeta ==
    /\ pc = "meta"
    /\ LET records == [i \in 1..Len(sample_cols) |-> parse_sample_name(sample_cols[i])]
           names == Range(sample_cols)
       IN  IF "sample" \notin DataFrameColumns(records)
           THEN /\ pc' = "aborted"
                /\ err' = "KeyError"
                /\ UNCHANGED << meta_df, libsize, richness, sum_c_logc,
                                species_sets, genus_sets, family_sets,
                                agg_by_order, agg_by_genus, agg_by_family,
                                asv_counts, processed, consumed,
                    asv_table, tax_table, files, chunks, chunk_i, totals >>
           ELSE /\ pc' = "rows"
                /\ meta_df' = [i \in 1..Len(records) |-> meta_row(records[i])]
                /\ libsize' = Counter(names)
                /\ richness' = Counter(names)
                /\ sum_c_logc' = Counter(names)
                /\ species_sets' = [s \in names |-> {}]
                /\ genus_sets' = [s \in names |-> {}]
                /\ family_sets' = [s \in names |-> {}]
                /\ agg_by_order' = [s \in names |-> <<>>]
                /\ agg_by_genus' = [s \in names |-> <<>>]
                /\ agg_by_family' = [s \in names |-> <<>>]
                /\ asv_counts' = <<>>
                /\ processed' = 0
                /\ consumed' = <<>>
                /\ err' = err
    /\ UNCHANGED << header, sample_cols, row, row_counts, row_sum,
                    alpha, comp, dist, uv, logged, nmds, report, perm, first_run, summary,
                    asv_table, tax_table, files, chunks, chunk_i, totals >>

\* one turn of the loop of line 230
\* line 264: the row's counts are kept for the ASV-level matrices
RowRetainedBug(total) == total >= 0
RowRetained(total) == total > 0

\* the body of the loop of line 230 on the row r
ConsumeRowWith(r) ==
    /\ \E acc \in { accumulate_row(
                 [row_counts |-> <<>>, row_sum |-> 0, raised |-> FALSE,
                  libsize |-> libsize, richness |-> richness,
                  sum_c_logc |-> sum_c_logc,
                  species_sets |-> species_sets, genus_sets |-> genus_sets,
                  family_sets |-> family_sets,
                  agg_by_order |-> agg_by_order, agg_by_genus |-> agg_by_genus,
                  agg_by_family |-> agg_by_family, logged |-> logged],
                 header, sample_cols, r, 1) } :
        /\ row' = r
        /\ row_counts' = acc.row_counts
        /\ row_sum' = acc.row_sum
        /\ libsize' = acc.libsize
        /\ richness' = acc.richness
        /\ sum_c_logc' = acc.sum_c_logc
        /\ species_sets' = acc.species_sets
        /\ genus_sets' = acc.genus_sets
        /\ family_sets' = acc.family_sets
        /\ agg_by_order' = acc.agg_by_order
        /\ agg_by_genus' = acc.agg_by_genus
        /\ agg_by_family' = acc.agg_by_family
        /\ logged' = acc.logged
        /\ asv_counts' = IF RowRetained(acc.row_sum) /\ ~acc.raised
                         THEN Append(asv_counts, acc.row_counts)
                         ELSE asv_counts
        /\ processed' = IF acc.raised THEN processed ELSE processed + 1
        /\ pc' = IF acc.raised THEN "aborted" ELSE pc
        /\ err' = IF acc.raised THEN "ValueError" ELSE err
        /\ consumed' = Append(consumed,
                         [counts |-> acc.row_counts,
                          order |-> rank_val(header, r, N_order),
                          family |-> rank_val(header, r, N_family),
                          genus |-> rank_val(header, r, N_genus),
                          species |-> rank_val(header, r, N_species)])
    /\ UNCHANGED << header, sample_cols, meta_df, alpha, comp, dist, uv, nmds, report, perm,
                    summary,
                    asv_table, tax_table, files, chunks, chunk_i, totals >>

ConsumeRow ==
    /\ pc = "rows"
    /\ (processed + 1) * Len(sample_cols) <= MaxCells
    /\ \E r \in RowsOf(header) : ConsumeRowWith(r)
    /\ UNCHANGED first_run

\* lines 270-294, once the worksheet has no more rows
ComputeAlpha ==
    /\ pc = "rows"
    /\ alpha' = alpha_of(sample_cols, libsize, richness, sum_c_logc)
    /\ logged' = logged \cup alpha_log_calls(sample_cols, libsize, richness)
    /\ row' = <<>>       \* the loop's row is not read after the loop
    /\ pc' = "composition"
    /\ UNCHANGED << err, header, sample_cols, meta_df, row_counts, row_sum,
                    consumed, processed, libsize, richness, sum_c_logc,
                    species_sets, genus_sets, family_sets, agg_by_order,
                    agg_by_genus, agg_by_family, asv_counts, comp, dist, uv, nmds, report, perm, first_run, summary,
                    asv_table, tax_table, files, chunks, chunk_i, totals >>

\* lines 305-348
ComputeComposition ==
    /\ pc = "composition"
    /\ comp' = [order |-> composition_of(agg_by_order),
                genus |-> composition_of(agg_by_genus),
                family |-> composition_of(agg_by_family),
                order_treat |-> group_mean(composition_of(agg_by_order), meta_df),
                family_treat |-> group_mean(composition_of(agg_by_family), meta_df)]
    /\ pc' = "beta"
    /\ UNCHANGED << err, header, sample_cols, meta_df, row, row_counts, row_sum,
                    consumed, processed, libsize, richness, sum_c_logc,
                    species_sets, genus_sets, family_sets, agg_by_order,
                    agg_by_genus, agg_by_family, asv_counts, alpha, dist, uv, logged, nmds, report, perm, first_run, summary,
                    asv_table, tax_table, files, chunks, chunk_i, totals >>

\* lines 350-394 and 502-528: the matrices, then the group statistics on
\* them.  The shuffles are those of the seeded generator, the same in every
\* call of run_permanova.
ComputeBeta ==
    /\ pc = "beta"
    /\ \E g \in { genus_beta(sample_cols, comp.genus) } :
       \E a \in { asv_beta(sample_cols, asv_counts) } :
       \E skbio \in SkbioOutcomes :
       \E shuffles \in Streams(Len(sample_cols)) :
          dist' = [bc |-> g.bc, jaccard |-> g.jaccard,
                   bc_asv |-> a.bc, jaccard_asv |-> a.jaccard,
                   dist_genus_long |->
                       IF frame_is_empty(g.bc) THEN <<>>
                       ELSE summarize_within_between(g.bc, meta_df, "treatment"),
                   dist_asv_long |->
                       IF asv_counts = <<>> THEN <<>>
                       ELSE summarize_within_between(a.bc, meta_df, "site"),
                   dist_asv_treat |->
                       IF asv_counts = <<>> THEN <<>>
                       ELSE summarize_within_between(a.bc, meta_df, "treatment"),
                   permanova_asv |->
                       IF asv_counts = <<>> THEN nan_result("permanova", "site")
                       ELSE run_permanova(a.bc, meta_df, "site", skbio, shuffles),
                   permanova_asv_treat |->
                       IF asv_counts = <<>> THEN nan_result("permanova", "treatment")
                       ELSE run_permanova(a.bc, meta_df, "treatment", skbio, shuffles),
                   pairwise_treat |->
                       IF asv_counts = <<>> THEN <<>>
                       ELSE pairwise_permanova(a.bc, meta_df, "treatment", skbio, shuffles)]
    /\ pc' = "nmds"
    /\ UNCHANGED << err, header, sample_cols, meta_df, row, row_counts, row_sum,
                    consumed, processed, libsize, richness, sum_c_logc,
                    species_sets, genus_sets, family_sets, agg_by_order,
                    agg_by_genus, agg_by_family, asv_counts, alpha, comp, uv,
                    logged, nmds, report, perm, first_run, summary,
                    asv_table, tax_table, files, chunks, chunk_i, totals >>

\* lines 531-587: the two ordinations.  scipy and sklearn may be missing,
\* and the optimizer may raise; both are caught.
ComputeNMDS ==
    /\ pc = "nmds"
    /\ \E deps \in { "available", "missing" } :
       \E fit_genus \in { "ok", "raises" } :
       \E fit_asv \in { "ok", "raises" } :
          nmds' = [genus |-> nmds_genus(sample_cols, libsize, TaxaOf(agg_by_genus),
                                        deps, fit_genus),
                   asv |-> nmds_asv(sample_cols, asv_counts, deps, fit_asv)]
    /\ pc' = "report"
    /\ UNCHANGED << err, header, sample_cols, meta_df, row, row_counts, row_sum,
                    consumed, processed, libsize, richness, sum_c_logc,
                    species_sets, genus_sets, family_sets, agg_by_order,
                    agg_by_genus, agg_by_family, asv_counts, alpha, comp, dist, uv,
                    logged, report, perm, first_run, summary,
                    asv_table, tax_table, files, chunks, chunk_i, totals >>

\* lines 589-649: the workbook, under its name or, when that file is locked,
\* under the alternate name
WriteReport ==
    /\ pc = "report"
    /\ \E locked \in BOOLEAN :
          report' = IF locked
                    THEN [file |-> "metabarcoding_basic_analysis_FULL_alt.xlsx",
                          sheets |-> report_sheets(comp, dist, asv_counts)
                                     \o << "PERMANOVA_ASV" >>,
                          after_close |-> <<>>]
                    ELSE [file |-> "metabarcoding_basic_analysis_FULL.xlsx",
                          sheets |-> report_sheets(comp, dist, asv_counts),
                          after_close |-> << "PERMANOVA_ASV" >>
                                          \o IF dist.pairwise_treat # <<>>
                                             THEN << "PERMANOVA_Treatment_Pairs" >>
                                             ELSE <<>>]
    /\ pc' = "summary"
    /\ UNCHANGED << err, header, sample_cols, meta_df, row, row_counts, row_sum,
                    consumed, processed, libsize, richness, sum_c_logc,
                    species_sets, genus_sets, family_sets, agg_by_order,
                    agg_by_genus, agg_by_family, asv_counts, alpha, comp, dist, uv,
                    logged, nmds, perm, first_run, summary,
                    asv_table, tax_table, files, chunks, chunk_i, totals >>

\* lines 651-813: the plots (which fill the treatment column of the
\* annotated alpha table), the correlations, the Kruskal-Wallis tests and
\* the summary file.  total_rows was read from the worksheet at line 228 and
\* is first used here (line 267 uses it every 10000 rows only); None - 1
\* raises TypeError while the summary is built, before it is written, and
\* what the closing tests computed is lost with the run.
WriteSummary ==
    /\ pc = "summary"
    /\ \E scipy \in { "available", "missing" } :
       \E kw_fail \in 0..2 :
       \E total_rows \in MaxRows(processed) :
       \E annot \in { fill_treatment(alpha_annot_of(meta_df, alpha)) } :
          IF total_rows = NoMaxRow
          THEN /\ summary' = NoSummary
               /\ pc' = "aborted"
               /\ err' = "TypeError"
          ELSE /\ summary' = [alpha_annot |-> annot,
                              treatments |-> sorted_levels(annot),
                              correlations |-> correlations(meta_df, scipy),
                              kw_tests |-> kruskal_tests(annot, sorted_levels(annot),
                                                         scipy, kw_fail),
                              scipy |-> "", kw_fail |-> 0,
                              json |-> summary_of(sample_cols, libsize, total_rows),
                              written |-> TRUE]
               /\ pc' = "done"
               /\ err' = err
    /\ UNCHANGED << header, sample_cols, meta_df, row, row_counts, row_sum,
                    consumed, processed, libsize, richness, sum_c_logc,
                    species_sets, genus_sets, family_sets, agg_by_order,
                    agg_by_genus, agg_by_family, asv_counts, alpha, comp, dist, uv,
                    logged, nmds, report, perm, first_run,
                    asv_table, tax_table, files, chunks, chunk_i, totals >>

\* _bray and _jaccard on their own, on every pair of equal-length vectors
\* with entries in -1..MaxVal and at most MaxLen of them, and on the two
\* worked pairs of the specification
ExamplePairs ==
    { << <<0, 2, 0, 4>>, <<1, 2, 3, 0>> >>, << <<1, 1, 0>>, <<1, 0, 1>> >> }

InitDist ==
    /\ pc = "vectors"
    /\ header = <<>>
    /\ perm = NoPerm
    /\ Untouched
    /\ NoFilterRun /\ NoChunkedRun
    /\ summary = <<>>
    /\ \E n \in 0..MaxLen :
         \E p \in ({ <<a, b>> : a \in [1..n -> (0 - 1)..MaxVal],
                                  b \in [1..n -> (0 - 1)..MaxVal] }
                    \cup ExamplePairs) :
             uv = [u |-> [i \in DOMAIN p[1] |-> RInt(p[1][i])],
                   v |-> [i \in DOMAIN p[2] |-> RInt(p[2][i])],
                   bray |-> NaN, jaccard |-> NaN, done |-> FALSE]

Distances ==
    /\ pc = "vectors"
    /\ ~uv.done
    /\ uv' = [uv EXCEPT !.bray = _bray(uv.u, uv.v),
                        !.jaccard = _jaccard(uv.u, uv.v),
                        !.done = TRUE]
    /\ UNCHANGED << pc, err, header, sample_cols, meta_df, row, row_counts,
                    row_sum, consumed, processed, libsize, richness, sum_c_logc,
                    species_sets, genus_sets, family_sets, agg_by_order,
                    agg_by_genus, agg_by_family, asv_counts, alpha, comp, dist, logged, nmds, report, perm, first_run, summary,
                    asv_table, tax_table, files, chunks, chunk_i, totals >>

\* the group statistics on their own: every symmetric matrix over up to
\* MaxSamples samples with distances in DistVals, every labelling of the
\* samples by a treatment or none
PermNames == << N_s1, N_s2, <<"s","3">>, <<"s","4">>, <<"s","5">> >>
GroupLabels == { "20t_top", "control", "ref", NoLabel }
DistVals == { RInt(0), RInt(1), RInt(2), NaN }
\* the group columns asked for: one the metadata has, one it has not
GroupCols == { "treatment", "block" }

SymMatrix(n, f) ==
    [i \in 1..n |-> [j \in 1..n |->
        IF i = j THEN RInt(0) ELSE IF i < j THEN f[<<i, j>>] ELSE f[<<j, i>>]]]

InitPerm ==
    /\ pc = "groups"
    /\ header = <<>>
    /\ uv = NoVectors
    /\ Untouched
    /\ NoFilterRun /\ NoChunkedRun
    /\ summary = <<>>
    /\ \E n \in 0..MaxSamples :
       \E f \in [UpperPairs(n) -> DistVals] :
       \E lab \in [1..n -> GroupLabels] :
          perm = [NoPerm EXCEPT
                    !.dist_df = [idx |-> SubSeq(PermNames, 1, n), mat |-> SymMatrix(n, f)],
                    !.meta = [i \in 1..n |-> [sample |-> PermNames[i],
                                              treatment |-> lab[i]]]]

Summarize ==
    /\ pc = "groups"
    /\ \E col \in GroupCols :
          perm' = [perm EXCEPT
                     !.op = "summarize", !.group_col = col,
                     !.long = summarize_within_between(perm.dist_df, perm.meta, col)]
    /\ pc' = "grouped"
    /\ UNCHANGED << err, header, sample_cols, meta_df, row, row_counts, row_sum,
                    consumed, processed, libsize, richness, sum_c_logc,
                    species_sets, genus_sets, family_sets, agg_by_order,
                    agg_by_genus, agg_by_family, asv_counts, alpha, comp, dist, uv,
                    logged, nmds, report, first_run, summary,
                    asv_table, tax_table, files, chunks, chunk_i, totals >>

Permanova ==
    /\ pc = "groups"
    /\ \E col \in GroupCols :
       \E skbio \in SkbioOutcomes :
       \E shuffles \in Streams(Len(perm.dist_df.idx)) :
          perm' = [perm EXCEPT
                     !.op = "permanova", !.group_col = col,
                     !.result = run_permanova(perm.dist_df, perm.meta, col, skbio, shuffles)]
    /\ pc' = "grouped"
    /\ UNCHANGED << err, header, sample_cols, meta_df, row, row_counts, row_sum,
                    consumed, processed, libsize, richness, sum_c_logc,
                    species_sets, genus_sets, family_sets, agg_by_order,
                    agg_by_genus, agg_by_family, asv_counts, alpha, comp, dist, uv,
                    logged, nmds, report, first_run, summary,
                    asv_table, tax_table, files, chunks, chunk_i, totals >>

PairwisePermanova ==
    /\ pc = "groups"
    /\ \E col \in GroupCols :
       \E skbio \in SkbioOutcomes :
       \E shuffles \in Streams(Len(perm.dist_df.idx)) :
          perm' = [perm EXCEPT
                     !.op = "pairwise", !.group_col = col,
                     !.pairs = pairwise_permanova(perm.dist_df, perm.meta, col, skbio, shuffles)]
    /\ pc' = "grouped"
    /\ UNCHANGED << err, header, sample_cols, meta_df, row, row_counts, row_sum,
                    consumed, processed, libsize, richness, sum_c_logc,
                    species_sets, genus_sets, family_sets, agg_by_order,
                    agg_by_genus, agg_by_family, asv_counts, alpha, comp, dist, uv,
                    logged, nmds, report, first_run, summary,
                    asv_table, tax_table, files, chunks, chunk_i, totals >>

Next ==
    \/ Classify \/ BuildMeta \/ ConsumeRow \/ ComputeAlpha \/ ComputeComposition
    \/ ComputeBeta \/ ComputeNMDS \/ WriteReport \/ WriteSummary

Spec == Init /\ [][Next]_vars

SpecClassify == InitClassify /\ [][Classify]_vars

SpecDist == InitDist /\ [][Distances]_vars

SpecPerm == InitPerm /\ [][Summarize \/ Permanova \/ PairwisePermanova]_vars

\* the closing tests on their own, beside the group statistics of the
\* distance step on the same labels: every labelling of up to MaxSamples
\* samples by a treatment or none, at equal distances, each sample's Shannon
\* index a number or NaN
InitKW ==
    /\ pc = "groups"
    /\ header = <<>>
    /\ uv = NoVectors
    /\ Untouched
    /\ NoFilterRun /\ NoChunkedRun
    /\ \E n \in 0..MaxSamples :
       \E lab \in [1..n -> GroupLabels] :
       \E sh \in [1..n -> { RInt(1), NaN }] :
          /\ perm = [NoPerm EXCEPT
                       !.dist_df = [idx |-> SubSeq(PermNames, 1, n),
                                    mat |-> SymMatrix(n, [p \in UpperPairs(n) |-> RInt(1)])],
                       !.meta = [i \in 1..n |-> [sample |-> PermNames[i],
                                                 treatment |-> lab[i]]]]
          /\ summary = [NoSummary EXCEPT
                          !.alpha_annot = [i \in 1..n |->
                              [sample |-> PermNames[i], treatment |-> lab[i],
                               observed_asvs |-> RInt(1), shannon |-> sh[i]]]]

\* lines 673-674
FillTreatment ==
    /\ pc = "grouped"
    /\ summary' = [summary EXCEPT
                     !.alpha_annot = fill_treatment(@),
                     !.treatments = sorted_levels(fill_treatment(summary.alpha_annot))]
    /\ pc' = "filled"
    /\ UNCHANGED << err, header, sample_cols, meta_df, row, row_counts, row_sum,
                    consumed, processed, libsize, richness, sum_c_logc,
                    species_sets, genus_sets, family_sets, agg_by_order,
                    agg_by_genus, agg_by_family, asv_counts, alpha, comp, dist, uv,
                    logged, nmds, report, perm, first_run,
                    asv_table, tax_table, files, chunks, chunk_i, totals >>

\* lines 789-799
KruskalWallis ==
    /\ pc = "filled"
    /\ \E scipy \in { "available", "missing" } :
       \E kw_fail \in 0..2 :
          summary' = [summary EXCEPT
                        !.kw_tests = kruskal_tests(summary.alpha_annot, summary.treatments,
                                                   scipy, kw_fail),
                        !.scipy = scipy,
                        !.kw_fail = kw_fail]
    /\ pc' = "tested"
    /\ UNCHANGED << err, header, sample_cols, meta_df, row, row_counts, row_sum,
                    consumed, processed, libsize, richness, sum_c_logc,
                    species_sets, genus_sets, family_sets, agg_by_order,
                    agg_by_genus, agg_by_family, asv_counts, alpha, comp, dist, uv,
                    logged, nmds, report, perm, first_run,
                    asv_table, tax_table, files, chunks, chunk_i, totals >>

SpecKW == InitKW /\ [][Summarize \/ Permanova \/ FillTreatment \/ KruskalWallis]_vars

(***************************************************************************)
(* 06_filter_by.py: the five filtering steps of the ASV table.             *)
(***************************************************************************)
\* the thresholds (lines 14-18)
remove_singletons == TRUE
min_total_abundance == 5
min_relative_abundance == [n |-> 1, d |-> 1000000]
min_sample_reads == 100
min_richness == 2

\* a table is its columns, in order, and its rows, in order; a row carries
\* its index label and a count under every column
\* (asv_table > 0).sum(axis=1) of one row
samples_present(r, columns) ==
    Cardinality({ k \in 1..Len(columns) : r.counts[columns[k]] > 0 })
\* asv_table.sum(axis=1) of one row
asv_total(r, columns) ==
    SumInt([k \in 1..Len(columns) |-> r.counts[columns[k]]], 1..Len(columns))
\* asv_table.sum(axis=0) of one column
sample_total(tbl, c) ==
    SumInt([k \in 1..Len(tbl.rows) |-> tbl.rows[k].counts[c]], 1..Len(tbl.rows))
\* asv_table.sum().sum()
total_reads_of(tbl) ==
    SumInt([k \in 1..Len(tbl.rows) |-> asv_total(tbl.rows[k], tbl.columns)],
           1..Len(tbl.rows))
\* the index labels of a table: tax_table[mask] keeps the rows of the same labels
index_of(tbl) == [k \in 1..Len(tbl.rows) |-> tbl.rows[k].id]

\* lines 44-47
drop_singletons(tbl) ==
    IF remove_singletons
    THEN [tbl EXCEPT !.rows = SelectSeq(@, LAMBDA r : samples_present(r, tbl.columns) > 1)]
    ELSE tbl
\* lines 52-54
drop_low_total(tbl) ==
    [tbl EXCEPT !.rows =
        SelectSeq(@, LAMBDA r : asv_total(r, tbl.columns) >= min_total_abundance)]
\* lines 59-63: row total / total_reads >= min_relative_abundance; a
\* division by a zero total gives NaN or inf, of which only inf compares true,
\* and no row is left with a positive total when the grand total is 0
\* part / whole >= q for whole > 0, in integers: part >= ceil(q.n * whole / q.d)
relative_at_least(part, whole, q) ==
    /\ whole > 0
    /\ part >= ((q.n * whole - 1) \div q.d) + 1
drop_low_relative(tbl) ==
    [tbl EXCEPT !.rows =
        SelectSeq(@, LAMBDA r :
            relative_at_least(asv_total(r, tbl.columns), total_reads_of(tbl),
                              min_relative_abundance))]
\* line 69
EnoughReads(reads) == reads >= min_sample_reads
\* lines 68-71
samples_to_keep(tbl) ==
    SelectSeq(tbl.columns, LAMBDA c : EnoughReads(sample_total(tbl, c)))
drop_small_samples(tbl) ==
    [columns |-> samples_to_keep(tbl),
     rows |-> [k \in 1..Len(tbl.rows) |->
                  [id |-> tbl.rows[k].id,
                   counts |-> [c \in Range(samples_to_keep(tbl)) |-> tbl.rows[k].counts[c]]]]]
\* lines 77-79
drop_low_richness(tbl) ==
    [tbl EXCEPT !.rows =
        SelectSeq(@, LAMBDA r : samples_present(r, tbl.columns) >= min_richness)]

\* the tables read: three sample columns, up to MaxAsvRows rows of counts
MaxAsvRows == 2
FilterColumns == << "KIS0001", "KIS0002", "KIS0003" >>
FilterCounts == { 0, 2, 3, 50, 10000000 }

\* lines 21-41
InitFilter ==
    /\ pc = "singletons"
    /\ header = <<>>
    /\ uv = NoVectors
    /\ perm = NoPerm
    /\ Untouched
    /\ NoChunkedRun
    /\ summary = <<>>
    /\ \E n \in 0..MaxAsvRows :
       \E cells \in [1..n -> [Range(FilterColumns) -> FilterCounts]] :
          /\ asv_table = [columns |-> FilterColumns,
                          rows |-> [k \in 1..n |-> [id |-> k, counts |-> cells[k]]]]
          /\ tax_table = [k \in 1..n |-> k]

\* lines 43-49
RemoveSingletons ==
    /\ pc = "singletons"
    /\ asv_table' = drop_singletons(asv_table)
    /\ tax_table' = index_of(drop_singletons(asv_table))
    /\ summary' = Append(summary, [step |-> "singletons",
                                   removed |-> Len(asv_table.rows) - Len(drop_singletons(asv_table).rows)])
    /\ pc' = "total"
    /\ UNCHANGED << err, header, sample_cols, meta_df, row, row_counts, row_sum,
                    consumed, processed, libsize, richness, sum_c_logc,
                    species_sets, genus_sets, family_sets, agg_by_order,
                    agg_by_genus, agg_by_family, asv_counts, alpha, comp, dist, uv,
                    logged, nmds, report, perm, first_run,
                    files, chunks, chunk_i, totals >>

\* lines 51-56
FilterTotalAbundance ==
    /\ pc = "total"
    /\ asv_table' = drop_low_total(asv_table)
    /\ tax_table' = index_of(drop_low_total(asv_table))
    /\ summary' = Append(summary, [step |-> "total abundance",
                                   removed |-> Len(asv_table.rows) - Len(drop_low_total(asv_table).rows)])
    /\ pc' = "relative"
    /\ UNCHANGED << err, header, sample_cols, meta_df, row, row_counts, row_sum,
                    consumed, processed, libsize, richness, sum_c_logc,
                    species_sets, genus_sets, family_sets, agg_by_order,
                    agg_by_genus, agg_by_family, asv_counts, alpha, comp, dist, uv,
                    logged, nmds, report, perm, first_run,
                    files, chunks, chunk_i, totals >>

\* lines 58-65
FilterRelativeAbundance ==
    /\ pc = "relative"
    /\ asv_table' = drop_low_relative(asv_table)
    /\ tax_table' = index_of(drop_low_relative(asv_table))
    /\ summary' = Append(summary, [step |-> "relative abundance",
                                   removed |-> Len(asv_table.rows) - Len(drop_low_relative(asv_table).rows)])
    /\ pc' = "samples"
    /\ UNCHANGED << err, header, sample_cols, meta_df, row, row_counts, row_sum,
                    consumed, processed, libsize, richness, sum_c_logc,
                    species_sets, genus_sets, family_sets, agg_by_order,
                    agg_by_genus, agg_by_family, asv_counts, alpha, comp, dist, uv,
                    logged, nmds, report, perm, first_run,
                    files, chunks, chunk_i, totals >>

\* lines 67-74: the rows are all kept, only columns go
FilterSampleReads ==
    /\ pc = "samples"
    /\ asv_table' = drop_small_samples(asv_table)
    /\ summary' = Append(summary, [step |-> "sample reads",
                                   removed |-> Len(asv_table.columns)
                                                 - Len(samples_to_keep(asv_table))])
    /\ pc' = "richness"
    /\ UNCHANGED << tax_table, err, header, sample_cols, meta_df, row, row_counts, row_sum,
                    consumed, processed, libsize, richness, sum_c_logc,
                    species_sets, genus_sets, family_sets, agg_by_order,
                    agg_by_genus, agg_by_family, asv_counts, alpha, comp, dist, uv,
                    logged, nmds, report, perm, first_run,
                    files, chunks, chunk_i, totals >>

\* lines 76-81
FilterRichness ==
    /\ pc = "richness"
    /\ asv_table' = drop_low_richness(asv_table)
    /\ tax_table' = index_of(drop_low_richness(asv_table))
    /\ summary' = Append(summary, [step |-> "richness",
                                   removed |-> Len(asv_table.rows) - Len(drop_low_richness(asv_table).rows)])
    /\ pc' = "output"
    /\ UNCHANGED << err, header, sample_cols, meta_df, row, row_counts, row_sum,
                    consumed, processed, libsize, richness, sum_c_logc,
                    species_sets, genus_sets, family_sets, agg_by_order,
                    agg_by_genus, agg_by_family, asv_counts, alpha, comp, dist, uv,
                    logged, nmds, report, perm, first_run,
                    files, chunks, chunk_i, totals >>

\* lines 84-102: the table and the summary are written
WriteFiltered ==
    /\ pc = "output"
    /\ files' = [filtered |-> [columns |-> asv_table.columns, index |-> tax_table],
                 summary_txt |-> summary]
    /\ pc' = "filtered"
    /\ UNCHANGED << asv_table, tax_table, summary,
                    err, header, sample_cols, meta_df, row, row_counts, row_sum,
                    consumed, processed, libsize, richness, sum_c_logc,
                    species_sets, genus_sets, family_sets, agg_by_order,
                    agg_by_genus, agg_by_family, asv_counts, alpha, comp, dist, uv,
                    logged, nmds, report, perm, first_run, chunks, chunk_i, totals >>

NextFilter ==
    \/ RemoveSingletons \/ FilterTotalAbundance \/ FilterRelativeAbundance
    \/ FilterSampleReads \/ FilterRichness \/ WriteFiltered

SpecFilter == InitFilter /\ [][NextFilter]_vars

(***************************************************************************)
(* 05_exploratory_analysis_arthropoda.py: the chunked clean-up.            *)
(***************************************************************************)
\* the output paths (lines 14-18)
output_cleaned_table == "01_cleaned_taxa_filtered.csv"
output_arthropoda_table == "02_arthropoda_only.csv"
output_filtered_identity == "03_arthropoda_identity_filtered.csv"
output_renamed_table == "04_arthropoda_renamed_samples.csv"
output_summary == "summary_stats.txt"
CsvPaths == { output_cleaned_table, output_arthropoda_table,
              output_filtered_identity, output_renamed_table }
OutputPaths == CsvPaths \cup { output_summary }

\* a file is the sequence of its lines; the files that exist are the domain
\* of the directory.  A line left by an earlier run:
StaleLine == [kind |-> "stale", chunk |-> 0, row |-> 0]
\* the header line and the data lines that to_csv writes for chunk i
HeaderLine(i) == [kind |-> "header", chunk |-> i, row |-> 0]
RowLine(i, k) == [kind |-> "row", chunk |-> i, row |-> k]

\* lines 21-25
remove_outputs(dir) == [p \in (DOMAIN dir) \ OutputPaths |-> dir[p]]

\* header=not os.path.exists(path)
header_neededBug(dir, path) == TRUE
header_needed(dir, path) == path \notin DOMAIN dir

\* DataFrame.to_csv(path, mode='a', index=False, header=hdr): the file is
\* created when it does not exist, the header line is written when asked
\* for, also for a frame without rows, then one line per row
to_csv(dir, path, lines, hdr, i) ==
    [p \in (DOMAIN dir) \cup { path } |->
        IF p = path
        THEN (IF path \in DOMAIN dir THEN dir[path] ELSE <<>>)
             \o (IF hdr THEN << HeaderLine(i) >> ELSE <<>>)
             \o lines
        ELSE dir[p]]

\* a row of the input is known by its phylum: Arthropoda, another phylum,
\* or no taxonomy at all ("no-match" at every rank, replaced by NA at line 97)
RowKinds == { "Arthropoda", "Mollusca", "no-match" }
\* line 103
present_any(r) == r # "no-match"
\* the lines of the rows of chunk i that satisfy a condition on the phylum
rows_where(chunk, i, phyla) ==
    SelectSeq([k \in 1..Len(chunk) |-> RowLine(i, k)],
              LAMBDA l : chunk[l.row] \in phyla)
\* line 108
cleaned_of(chunk, i) == rows_where(chunk, i, { "Arthropoda", "Mollusca" })
\* line 113
arth_of(chunk, i) == rows_where(chunk, i, { "Arthropoda" })

\* lines 122-135: the three appends of the Arthropoda rows
append_arth(dir, arth, i) ==
    to_csv(
      to_csv(
        to_csv(dir, output_arthropoda_table, arth,
               header_needed(dir, output_arthropoda_table), i),
        output_filtered_identity, arth, header_needed(dir, output_filtered_identity), i),
      output_renamed_table, arth, header_needed(dir, output_renamed_table), i)

\* lines 108-135: what one pass of the loop body writes
write_chunk(dir, chunk, i) ==
    IF arth_of(chunk, i) = <<>>
    THEN to_csv(dir, output_cleaned_table, cleaned_of(chunk, i),
                header_needed(dir, output_cleaned_table), i)
    ELSE append_arth(to_csv(dir, output_cleaned_table, cleaned_of(chunk, i),
                            header_needed(dir, output_cleaned_table), i),
                     arth_of(chunk, i), i)

\* lines 100-105
count_chunk(t, chunk) ==
    [total_otus |-> t.total_otus + Len(chunk),
     matched_higher |-> t.matched_higher
                          + Cardinality({ k \in 1..Len(chunk) : present_any(chunk[k]) }),
     unmatched |-> t.unmatched
                     + Cardinality({ k \in 1..Len(chunk) : ~present_any(chunk[k]) })]

\* the inputs: up to MaxChunks chunks of one or two rows, and an output
\* directory in which any of the outputs may be left from an earlier run
MaxChunks == 3
ChunkKinds == { << "no-match" >>, << "Mollusca" >>, << "Arthropoda" >>,
                << "Mollusca", "Arthropoda" >> }

\* lines 7-18
InitChunked ==
    /\ pc = "stale"
    /\ header = <<>>
    /\ uv = NoVectors
    /\ perm = NoPerm
    /\ Untouched
    /\ NoFilterRun
    /\ summary = <<>>
    /\ chunk_i = 0
    /\ totals = <<>>
    /\ chunks \in SeqsUpTo(ChunkKinds, MaxChunks)
    /\ \E stale \in SUBSET OutputPaths :
          files = [p \in stale |-> << HeaderLine(0), StaleLine >>]

\* lines 20-25 and 76-81
RemoveStale ==
    /\ pc = "stale"
    /\ files' = remove_outputs(files)
    /\ totals' = [total_otus |-> 0, matched_higher |-> 0, unmatched |-> 0]
    /\ pc' = "chunks"
    /\ UNCHANGED << chunks, chunk_i, asv_table, tax_table, summary,
                    err, header, sample_cols, meta_df, row, row_counts, row_sum,
                    consumed, processed, libsize, richness, sum_c_logc,
                    species_sets, genus_sets, family_sets, agg_by_order,
                    agg_by_genus, agg_by_family, asv_counts, alpha, comp, dist, uv,
                    logged, nmds, report, perm, first_run >>

\* lines 84-140: one pass of the loop
ProcessChunk ==
    /\ pc = "chunks"
    /\ chunk_i < Len(chunks)
    /\ chunk_i' = chunk_i + 1
    /\ totals' = count_chunk(totals, chunks[chunk_i + 1])
    /\ files' = write_chunk(files, chunks[chunk_i + 1], chunk_i + 1)
    /\ UNCHANGED << pc, chunks, asv_table, tax_table, summary,
                    err, header, sample_cols, meta_df, row, row_counts, row_sum,
                    consumed, processed, libsize, richness, sum_c_logc,
                    species_sets, genus_sets, family_sets, agg_by_order,
                    agg_by_genus, agg_by_family, asv_counts, alpha, comp, dist, uv,
                    logged, nmds, report, perm, first_run >>

\* lines 142-151, after the last chunk
WriteSummaryStats ==
    /\ pc = "chunks"
    /\ chunk_i = Len(chunks)
    /\ files' = [p \in (DOMAIN files) \cup { output_summary } |->
                    IF p = output_summary THEN << totals >> ELSE files[p]]
    /\ pc' = "chunked"
    /\ UNCHANGED << chunks, chunk_i, totals, asv_table, tax_table, summary,
                    err, header, sample_cols, meta_df, row, row_counts, row_sum,
                    consumed, processed, libsize, richness, sum_c_logc,
                    species_sets, genus_sets, family_sets, agg_by_order,
                    agg_by_genus, agg_by_family, asv_counts, alpha, comp, dist, uv,
                    logged, nmds, report, perm, first_run >>

SpecChunked == InitChunked /\ [][RemoveStale \/ ProcessChunk \/ WriteSummaryStats]_vars

\* main run a second time on the same worksheet.  What the first run left in
\* its accumulators is kept in place when the second run starts, so that
\* anything the second run does not create for itself would show.
AccumulatorStats ==
    [libsize |-> libsize, richness |-> richness, sum_c_logc |-> sum_c_logc,
     species_sets |-> species_sets, genus_sets |-> genus_sets,
     family_sets |-> family_sets]

Restart ==
    /\ first_run.run = 1
    /\ pc \in {"composition", "aborted"}
    /\ first_run' = [run |-> 2, stream |-> first_run.stream,
                     stats |-> AccumulatorStats, pc |-> pc, err |-> err]
    /\ pc' = "classify"
    /\ err' = "none"
    /\ UNCHANGED << header, sample_cols, meta_df, row, row_counts, row_sum,
                    consumed, processed, libsize, richness, sum_c_logc,
                    species_sets, genus_sets, family_sets, agg_by_order,
                    agg_by_genus, agg_by_family, asv_counts, alpha, comp, dist,
                    uv, logged, nmds, report, perm, summary,
                    asv_table, tax_table, files, chunks, chunk_i, totals >>

\* one turn of the row loop: the first run reads any row, the second run
\* reads the rows the first run read, in the same order
RerunConsume ==
    /\ pc = "rows"
    /\ IF first_run.run = 1
       THEN /\ (processed + 1) * Len(sample_cols) <= MaxCells
            /\ \E r \in RowsOf(header) :
                  /\ ConsumeRowWith(r)
                  /\ first_run' = [first_run EXCEPT !.stream = Append(@, r)]
       ELSE /\ processed < Len(first_run.stream)
            /\ ConsumeRowWith(first_run.stream[processed + 1])
            /\ UNCHANGED first_run

\* the end of the worksheet: in the second run, after the same rows
RerunAlpha ==
    /\ first_run.run = 2 => processed = Len(first_run.stream)
    /\ ComputeAlpha

NextRerun == Classify \/ BuildMeta \/ RerunConsume \/ RerunAlpha \/ Restart

SpecRerun == Init /\ [][NextRerun]_vars

(***************************************************************************)
(* The claims.                                                             *)
(***************************************************************************)
\* the positions (1-based) of the taxonomy-marker columns of a header
MarkerPositions(hdr) == { i \in 1..Len(hdr) : Lower(hdr[i]) \in tax_markers }
FirstMarker(hdr) == CHOOSE i \in MarkerPositions(hdr) : \A j \in MarkerPositions(hdr) : i <= j

AllIn(s, lo, hi, cls) == hi <= Len(s) /\ \A k \in lo..hi : s[k] \in cls
CharAt(s, i, cls) == i >= 1 /\ i <= Len(s) /\ s[i] \in cls

\* s has the shape {2-3 letters}_{letters}/{digits} with an optional
\* -digits or /digits suffix and nothing else
IsSampleShape(s) ==
    \E a \in 2..3 : \E b \in 1..Len(s) : \E c \in 1..Len(s) :
        /\ AllIn(s, 1, a, Letters)
        /\ CharAt(s, a + 1, {"_"})
        /\ AllIn(s, a + 2, a + 1 + b, Letters)
        /\ CharAt(s, a + b + 2, {"/"})
        /\ AllIn(s, a + b + 3, a + b + 2 + c, Digits)
        /\ \/ Len(s) = a + b + 2 + c
           \/ /\ CharAt(s, a + b + 3 + c, {"-", "/"})
              /\ Len(s) >= a + b + 4 + c
              /\ AllIn(s, a + b + 4 + c, Len(s), Digits)

\* the same, or that shape followed by one newline
IsSampleShapeNl(s) ==
    \/ IsSampleShape(s)
    \/ Len(s) >= 1 /\ s[Len(s)] = "\n" /\ IsSampleShape(SubSeq(s, 1, Len(s) - 1))

Classified == pc = "meta"

PastMeta == pc \in {"rows", "composition", "beta", "nmds", "report", "summary", "done", "aborted"}
\* the row loop has run to the end of the worksheet
PastRows == pc \in {"composition", "beta", "nmds", "report", "summary", "done"}

\* how this program reports a configuration error (line 173)
ConfigurationErrors == {"SystemExit"}

\* C3 as stated: with an empty sample set main reports a configuration
\* error and stops before it reads a row or computes a statistic.
C3_EmptySampleSetIsConfigurationError ==
    (PastMeta /\ sample_cols = <<>>)
        => /\ pc = "aborted"
           /\ err \in ConfigurationErrors
           /\ processed = 0
           /\ alpha = <<>>

\* C4 as stated: every count derived from a cell is non-negative, in the
\* row's counts, in the row total and in the retained ASV buffer.
C4_CountsNonNegative ==
    /\ \A k \in 1..Len(row_counts) : row_counts[k] >= 0
    /\ row_sum >= 0
    /\ \A a \in 1..Len(asv_counts) : \A k \in 1..Len(asv_counts[a]) : asv_counts[a][k] >= 0

\* the position of sample s among the sample columns
PosOf(s) == CHOOSE k \in 1..Len(sample_cols) : sample_cols[k] = s

\* the counts of sample s in the first n rows read
HistCounts(s, n) == [a \in 1..n |-> consumed[a].counts[PosOf(s)]]

HistLibsize(s, n) ==
    SumInt([a \in 1..n |-> IF HistCounts(s, n)[a] > 0 THEN HistCounts(s, n)[a] ELSE 0], 1..n)
HistRichness(s, n) == Cardinality({ a \in 1..n : HistCounts(s, n)[a] > 0 })

AccumulatorsMatchHistory ==
    (PastMeta /\ pc # "aborted") =>
        /\ Len(consumed) = processed
        /\ \A s \in Range(sample_cols) :
             /\ libsize[s] = HistLibsize(s, processed)
             /\ richness[s] = HistRichness(s, processed)

AccumulatorsStep ==
    (pc = "rows" /\ pc' = "rows" /\ processed' = processed + 1) =>
        \A s \in Range(sample_cols) :
            /\ libsize'[s] >= libsize[s]
            /\ richness'[s] >= richness[s]
            /\ ~(row_counts'[PosOf(s)] > 0)
                   => (libsize'[s] = libsize[s] /\ richness'[s] = richness[s])

\* C5: after any prefix of the row stream, libsize[s] is the sum of the
\* positive counts of s over the rows read and richness[s] the number of
\* rows with a positive count for s; a further row never decreases either
\* and changes neither for a sample whose count in it is not positive.
C5_AccumulatorInvariant == []AccumulatorsMatchHistory /\ [][AccumulatorsStep]_vars

C5_Witness ==
    /\ pc = "rows" /\ processed = 2
    /\ \E s \in Range(sample_cols) : libsize[s] = 7 /\ richness[s] = 2
    /\ \E s \in Range(sample_cols) : libsize[s] = 0 /\ \E k \in 1..2 : consumed[k].counts[PosOf(s)] < 0

AggOf(rank) ==
    IF rank = "order" THEN agg_by_order
    ELSE IF rank = "genus" THEN agg_by_genus ELSE agg_by_family

\* C6: for every rank and sample, each entry of the relative-abundance row
\* is the taxon's accumulated count over the sample's accumulated total at
\* that rank, and the row sums to 1 when that total is positive and is all
\* zeros otherwise.
C6_CompositionNormalized ==
    pc \in {"beta", "nmds", "report", "summary", "done"} =>
        \A rank \in {"order", "genus", "family"} : \A s \in Range(sample_cols) :
            LET counts == AggOf(rank)[s]
                total == SumInt(counts, DOMAIN counts)
                line == comp[rank][s]
            IN  /\ DOMAIN line = TaxaOf(AggOf(rank))
                /\ \A t \in DOMAIN line :
                     line[t] = IF total > 0 /\ t \in DOMAIN counts
                               THEN Rat(counts[t], total) ELSE RInt(0)
                /\ IF total > 0
                   THEN SumRat(line, DOMAIN line) = RInt(1)
                   ELSE \A t \in DOMAIN line : line[t] = RInt(0)

C6_Witness ==
    /\ pc = "done"
    /\ \E s \in Range(sample_cols) :
         /\ DOMAIN comp.genus[s] = {T_Cb, T_Mu}
         /\ comp.genus[s][T_Cb] = Rat(2, 7)
         /\ comp.genus[s][T_Mu] = Rat(5, 7)
    /\ \E s \in Range(sample_cols) :
         /\ agg_by_genus[s] = <<>>
         /\ \A t \in {T_Cb, T_Mu} : comp.genus[s][t] = RInt(0)

\* a matrix over the samples in input order: square, symmetric, zero
\* diagonal, every entry in [0,1]
IsDissimilarityMatrix(frame) ==
    LET n == Len(sample_cols)
    IN  /\ frame.idx = sample_cols
        /\ DOMAIN frame.mat = 1..n
        /\ \A i \in 1..n : DOMAIN frame.mat[i] = 1..n
        /\ \A i \in 1..n : frame.mat[i][i] = RInt(0)
        /\ \A i \in 1..n : \A j \in 1..n :
             /\ frame.mat[i][j] = frame.mat[j][i]
             /\ RLe(RInt(0), frame.mat[i][j])
             /\ RLe(frame.mat[i][j], RInt(1))

\* C7 as stated: every matrix that _pairwise produces, genus-level and
\* ASV-level, Bray-Curtis and Jaccard, is a dissimilarity matrix over the
\* samples.
C7_MatricesWellFormed ==
    pc = "done" =>
        /\ IsDissimilarityMatrix(dist.bc)
        /\ IsDissimilarityMatrix(dist.jaccard)
        /\ asv_counts # <<>> => /\ IsDissimilarityMatrix(dist.bc_asv)
                                /\ IsDissimilarityMatrix(dist.jaccard_asv)

\* the entries of the vectors handed to _bray/_jaccard on their own are
\* whole numbers
IntVec(u) == [i \in DOMAIN u |-> u[i].n]

\* C8: _bray(u, v) is the sum of |u_i - v_i| over (sum of u + sum of v),
\* and 0 when both sums are 0; [0,2,0,4] and [1,2,3,0] give 8/12.
C8_BrayCurtis ==
    (pc = "vectors" /\ uv.done) =>
        LET u == IntVec(uv.u)
            v == IntVec(uv.v)
            su == SumInt(u, DOMAIN u)
            sv == SumInt(v, DOMAIN v)
            diff == SumInt([i \in DOMAIN u |-> Abs(u[i] - v[i])], DOMAIN u)
        IN  /\ (su = 0 /\ sv = 0) => uv.bray = RInt(0)
            /\ su + sv # 0 => /\ ~IsNaN(uv.bray)
                              /\ uv.bray.n * (su + sv) = diff * uv.bray.d
            /\ (u = <<0, 2, 0, 4>> /\ v = <<1, 2, 3, 0>>) => uv.bray = Rat(8, 12)

C8_Witness ==
    /\ uv.done
    /\ IntVec(uv.u) = <<0, 2, 0, 4>> /\ IntVec(uv.v) = <<1, 2, 3, 0>>
    /\ uv.bray = [n |-> 2, d |-> 3]

\* C9: _jaccard(u, v) is 1 minus the number of positions positive in both
\* over the number positive in at least one, and 0 when no position is
\* positive in either; [1,1,0] and [1,0,1] give 1 - 1/3.
C9_Jaccard ==
    (pc = "vectors" /\ uv.done) =>
        LET u == IntVec(uv.u)
            v == IntVec(uv.v)
            both == Cardinality({ i \in DOMAIN u : u[i] > 0 /\ v[i] > 0 })
            either == Cardinality({ i \in DOMAIN u : u[i] > 0 \/ v[i] > 0 })
        IN  /\ either = 0 => uv.jaccard = RInt(0)
            /\ either > 0 => /\ ~IsNaN(uv.jaccard)
                             /\ uv.jaccard.n * either = (either - both) * uv.jaccard.d
            /\ (u = <<1, 1, 0>> /\ v = <<1, 0, 1>>) => uv.jaccard = Rat(2, 3)

C9_Witness ==
    /\ uv.done
    /\ IntVec(uv.u) = <<1, 1, 0>> /\ IntVec(uv.v) = <<1, 0, 1>>
    /\ uv.jaccard = [n |-> 2, d |-> 3]

\* the running sum of count * ln(count) of sample s over the rows read
HistSumCLogC(s) ==
    SumInt([a \in 1..processed |->
               IF HistCounts(s, processed)[a] > 0
               THEN HistCounts(s, processed)[a] * math_log(HistCounts(s, processed)[a])
               ELSE 0], 1..processed)

\* C10: H = ln(N) - S/N when N > 0 and richness > 0, and 0 otherwise; the
\* evenness is H / ln(richness) when richness > 1 and missing (never 0)
\* when richness <= 1; counts {5,3,2} give
\* H = ln(10) - (5 ln5 + 3 ln3 + 2 ln2)/10.  (Logarithms in thousandths.)
C10_ShannonEvenness ==
    PastRows =>
        \A s \in Range(sample_cols) :
            LET N == libsize[s]
                R == richness[s]
                S == HistSumCLogC(s)
                H == alpha[s].shannon
                E == alpha[s].pielou_evenness
            IN  /\ (N > 0 /\ R > 0) => (~IsNaN(H) /\ H.n * N = (N * math_log(N) - S) * H.d)
                /\ ~(N > 0 /\ R > 0) => H = RInt(0)
                /\ R > 1 => (~IsNaN(E) /\ E.n * H.d * math_log(R) = H.n * E.d)
                /\ R <= 1 => (IsNaN(E) /\ E # RInt(0))
                /\ { HistCounts(s, processed)[a] : a \in 1..processed } = {5, 3, 2}
                   /\ processed = 3
                     => H = Rat(10 * 2303 - (5 * 1609 + 3 * 1099 + 2 * 693), 10)

C10_Witness ==
    /\ pc = "done"
    /\ sample_cols = << N_suh_a_1 >>
    /\ processed = 3
    /\ { consumed[a].counts[1] : a \in 1..3 } = {5, 3, 2}
    /\ alpha[N_suh_a_1].shannon = [n |-> 5151, d |-> 5]
    /\ alpha[N_suh_a_1].pielou_evenness = Rat(5151, 5 * 1099)

\* C11: no logarithm is taken of a non-positive number: the row loop calls
\* math.log(cnt) only for cnt > 0, the alpha step calls math.log(N) only
\* for N > 0 and math.log(richness) only for richness > 1, and so the run
\* never ends in math.log's ValueError.
C11_NoLogOfNonPositive ==
    /\ \A c \in logged : c.arg > 0 /\ (c.site = "richness" => c.arg > 1)
    /\ err # "ValueError"

C11_Witness ==
    /\ PastRows
    /\ \E c \in logged : c.site = "row"
    /\ \E c \in logged : c.site = "N"
    /\ \E c \in logged : c.site = "richness"
    /\ \E a \in 1..Len(consumed) : \E k \in 1..Len(consumed[a].counts) :
          consumed[a].counts[k] < 0
    /\ \E s \in Range(sample_cols) : richness[s] <= 1

\* the samples with a nonzero library size, and the ordinations computed
NonzeroSamples == { i \in 1..Len(sample_cols) : libsize[sample_cols[i]] # 0 }
Ordinated == pc \in {"report", "summary", "done"}
EmptyOrdination(t) == t.columns = NMDSColumns /\ t.rows = <<>>

\* C12: whenever fewer than 2 samples have a nonzero library size, both the
\* genus-level and the ASV-level ordination are the empty table and the
\* embedding optimizer was invoked for neither.
C12_InsufficiencyGuard ==
    (Ordinated /\ Cardinality(NonzeroSamples) < 2) =>
        /\ EmptyOrdination(nmds.genus) /\ ~nmds.genus.invoked
        /\ EmptyOrdination(nmds.asv) /\ ~nmds.asv.invoked

\* C13: an exception caught in either ordination (a failed import, or
\* anything raised while building the matrix or fitting) leaves the empty
\* table with the fixed columns; the run is not aborted and goes on to the
\* workbook.
C13_FailurePolicy ==
    Ordinated =>
        /\ \A level \in {"genus", "asv"} :
              nmds[level].caught # "none" =>
                  /\ nmds[level].columns =
                        << "NMDS1", "NMDS2", "sample", "site", "plot", "rep",
                           "depth", "stress" >>
                  /\ nmds[level].rows = <<>>
        /\ err = "none"
        /\ (pc = "report" => ENABLED WriteReport)

C13_Witness ==
    /\ pc = "done"
    /\ nmds.genus.caught = "Exception" /\ nmds.genus.invoked
    /\ nmds.asv.caught = "Exception" /\ nmds.asv.invoked
    /\ report.sheets # <<>>

(***************************************************************************)
(* Claims about the group statistics, on the matrix and grouping of perm.  *)
(***************************************************************************)
\* the i-th sample of the matrix, its label under the group column asked
\* for (none when the metadata has no such column)
PermN == Len(perm.dist_df.idx)
PermLabel(i) ==
    IF perm.group_col \in DOMAIN perm.meta[i] THEN perm.meta[i][perm.group_col]
    ELSE NoLabel
PermLabelled == { i \in 1..PermN : PermLabel(i) # NoLabel }
PermGroups == { PermLabel(i) : i \in PermLabelled }
PermDist(i, j) == perm.dist_df.mat[i][j]
NoNaNDistance == \A p \in UpperPairs(PermN) : ~IsNaN(PermDist(p[1], p[2]))

\* the sum of the squared distances over the unordered pairs of P
SquaredPairs(P) ==
    LET pairs == { p \in P \X P : p[1] < p[2] }
    IN  SumRat([p \in pairs |-> RMul(PermDist(p[1], p[2]), PermDist(p[1], p[2]))], pairs)

SS_total == RDiv(SquaredPairs(PermLabelled), RInt(Cardinality(PermLabelled)))
SS_within ==
    SumRat([g \in PermGroups |->
               LET members == { i \in PermLabelled : PermLabel(i) = g }
               IN  RDiv(SquaredPairs(members), RInt(Cardinality(members)))],
           PermGroups)
SS_between == RSub(SS_total, SS_within)
PermDf1 == Cardinality(PermGroups) - 1
PermDf2 == Cardinality(PermLabelled) - Cardinality(PermGroups)
PseudoFQuotient ==
    RDiv(RDiv(SS_between, RInt(PermDf1)), RDiv(SS_within, RInt(PermDf2)))

\* the fallback ran on a grouping with at least 2 groups and 3 samples
FallbackRan ==
    /\ perm.op = "permanova"
    /\ perm.result.pseudoF # SkbioValue
    /\ Cardinality(PermGroups) >= 2
    /\ Cardinality(PermLabelled) >= 3

\* C14 as stated: whenever the fallback yields a defined pseudo-F, its
\* p-value is (1 + number of shuffles whose pseudo-F >= the observed one)
\* over (1 + the number of shuffles performed).
C14_PValueOverAllShuffles ==
    (FallbackRan /\ ~IsNaN(perm.result.pseudoF)) =>
        /\ perm.result.shuffled = perms
        /\ perm.result.pvalue = Rat(1 + perm.result.perm_F_ge, 1 + perms)

\* C15 as stated: with at least 2 groups and 3 samples the fallback returns
\* the number (SS_between/df1) / (SS_within/df2).
C15_PseudoFAlways ==
    (FallbackRan /\ NoNaNDistance) =>
        /\ ~IsNaN(perm.result.pseudoF)
        /\ perm.result.pseudoF = PseudoFQuotient

\* C15: with at least 2 groups and 3 samples the fallback returns
\* (SS_between/df1) / (SS_within/df2) when there are more samples than
\* groups and SS_within is positive, and NaN otherwise.
C15_PseudoFWhereDefined ==
    FallbackRan =>
        /\ perm.result.method = "permanova_fallback"
        /\ IF PermDf2 > 0 /\ RPos(SS_within)
           THEN perm.result.pseudoF = PseudoFQuotient
           ELSE IsNaN(perm.result.pseudoF)

C15_Witness ==
    /\ FallbackRan
    /\ PermN = 3 /\ Cardinality(PermGroups) = 2
    /\ PermDist(1, 2) = RInt(1) /\ PermDist(1, 3) = RInt(2) /\ PermDist(2, 3) = RInt(2)
    /\ PermLabel(1) = PermLabel(2)
    /\ perm.result.pseudoF = RInt(5)

\* C16: when the matrix is empty, the group column is absent, fewer than 3
\* samples carry a label or fewer than 2 distinct groups exist,
\* run_permanova returns a record whose pseudoF and pvalue are both NaN.
C16_PreconditionFailureIsNaN ==
    (/\ perm.op = "permanova"
     /\ \/ PermN = 0
        \/ perm.group_col \notin meta_columns(perm.meta)
        \/ Cardinality(PermLabelled) < 3
        \/ Cardinality(PermGroups) < 2) =>
        /\ IsNaN(perm.result.pseudoF)
        /\ IsNaN(perm.result.pvalue)

C16_Witness ==
    /\ perm.op = "permanova"
    /\ PermN = 3
    /\ perm.group_col \in meta_columns(perm.meta)
    /\ Cardinality(PermLabelled) = 2 /\ Cardinality(PermGroups) = 2
    /\ IsNaN(perm.result.pseudoF) /\ IsNaN(perm.result.pvalue)

C18_WithinBetweenPartition ==
    perm.op = "summarize" =>
        LET idx == perm.dist_df.idx
            long == perm.long
            defined == { p \in UpperPairs(PermN) : ~IsNaN(PermDist(p[1], p[2])) }
            recs(p) == { r \in 1..Len(long) :
                           long[r].sample1 = idx[p[1]] /\ long[r].sample2 = idx[p[2]] }
        IN  /\ Len(long) = Cardinality(defined)
            /\ NoNaNDistance => 2 * Len(long) = PermN * (PermN - 1)
            /\ \A p \in UpperPairs(PermN) :
                 Cardinality(recs(p)) = IF p \in defined THEN 1 ELSE 0
            /\ \A p \in defined : \A r \in recs(p) :
                 long[r].comparison =
                    IF /\ PermLabel(p[1]) # NoLabel /\ PermLabel(p[2]) # NoLabel
                       /\ PermLabel(p[1]) = PermLabel(p[2])
                    THEN "within" ELSE "between"

C18_Witness ==
    /\ perm.op = "summarize"
    /\ Len(perm.long) = 3
    /\ perm.long[1].comparison = "within"
    /\ perm.long[2].comparison = "between"
    /\ PermLabel(3) = NoLabel /\ PermLabel(1) # NoLabel

(***************************************************************************)
(* Claims about the composition by treatment.                              *)
(***************************************************************************)
Composed == pc \in {"beta", "nmds", "report", "summary", "done"}
TreatmentLabels == { meta_df[i].treatment : i \in 1..Len(meta_df) } \ { NoLabel }
Carrying(g) == { meta_df[i].sample : i \in { k \in 1..Len(meta_df) : meta_df[k].treatment = g } }

\* the grouped table holds, for every label and taxon, the mean of the
\* table's values over the samples carrying the label
IsGroupedMean(grouped, table) ==
    /\ DOMAIN grouped = TreatmentLabels
    /\ \A g \in DOMAIN grouped :
          /\ DOMAIN grouped[g] = UNION { DOMAIN table[s] : s \in DOMAIN table }
          /\ \A t \in DOMAIN grouped[g] :
                RMul(grouped[g][t], RInt(Cardinality(Carrying(g))))
                    = SumRat([s \in Carrying(g) |-> table[s][t]], Carrying(g))

\* C19: the composition by treatment has one row per distinct treatment
\* label, holding for each taxon the arithmetic mean of its relative
\* abundance over exactly the samples carrying the label; an unlabelled
\* sample is in no group, and when no sample is labelled the grouped tables
\* are empty and the workbook has no grouped sheet.
C19_GroupedRollUp ==
    /\ Composed =>
          /\ IsGroupedMean(comp.order_treat, comp.order)
          /\ IsGroupedMean(comp.family_treat, comp.family)
          /\ NoLabel \notin DOMAIN comp.order_treat \cup DOMAIN comp.family_treat
    /\ (pc = "done" /\ TreatmentLabels = {}) =>
          /\ comp.order_treat = <<>> /\ comp.family_treat = <<>>
          /\ "Composition_Order_Treatment" \notin Range(report.sheets)
          /\ "Composition_Family_Treatment" \notin Range(report.sheets)
    /\ (pc = "done" /\ TreatmentLabels # {}) =>
          /\ "Composition_Order_Treatment" \in Range(report.sheets)
          /\ "Composition_Family_Treatment" \in Range(report.sheets)

\* two samples of one treatment with different abundances of a taxon, a
\* sample of another treatment, and the workbook written
C19_Witness ==
    /\ pc = "done"
    /\ header = HeaderThree
    /\ Carrying("20t_top") = { N_B1_A, N_B2_A }
    /\ \E t \in DOMAIN comp.order_treat["20t_top"] :
          comp.order_treat["20t_top"][t] = Rat(1, 2)
    /\ "Composition_Order_Treatment" \in Range(report.sheets)

(***************************************************************************)
(* Claims about a second run.                                              *)
(***************************************************************************)
RerunEnded == first_run.run = 2 /\ pc \in {"composition", "aborted"}

\* C20: a second run of the row accumulator over the same header and the
\* same rows ends with the same library sizes, richness, entropy sums and
\* membership sets as the first, and ends the same way; nothing the first
\* run left behind changes it.
C20_AccumulatorDeterminism ==
    RerunEnded =>
        /\ libsize = first_run.stats.libsize
        /\ richness = first_run.stats.richness
        /\ sum_c_logc = first_run.stats.sum_c_logc
        /\ species_sets = first_run.stats.species_sets
        /\ genus_sets = first_run.stats.genus_sets
        /\ family_sets = first_run.stats.family_sets
        /\ pc = first_run.pc
        /\ err = first_run.err

C20_Witness ==
    /\ first_run.run = 2
    /\ pc = "composition"
    /\ Len(first_run.stream) = 2 /\ processed = 2
    /\ \E s \in Range(sample_cols) :
          /\ libsize[s] > 1 /\ richness[s] = 2
          /\ genus_sets[s] # {}

(***************************************************************************)
(* Claims about the retained buffer, the classifier's fallback, the        *)
(* permutation loop and the workbook.                                      *)
(***************************************************************************)
\* a memory budget a caller might ask for, in rows
MemoryBudget == 1

\* C23 as stated: the retained ASV buffer never holds more count vectors
\* than the caller's memory budget, however many rows have a positive total.
C23_RetainedBufferBound == Len(asv_counts) <= MemoryBudget

\* C24 as stated: on a header without a taxonomy marker the classifier
\* returns exactly the columns whose name has the sample-name shape, in
\* header order (none when no name has it).
C24_FallbackExactShape ==
    (Classified /\ MarkerPositions(header) = {}) =>
        sample_cols = SelectSeq(header, IsSampleShape)

\* the labels of the labelled samples of perm, in matrix order
PermLabels == [k \in 1..Cardinality(PermLabelled) |-> PermLabel(SortedSeq(PermLabelled)[k])]

\* C25: whenever the fallback reaches its permutation loop (at least 3
\* labelled samples in at least 2 groups) it shuffles the labels exactly
\* perms times, whatever the distances and whether or not the statistic is
\* defined, every shuffled array has the labels of the original as often
\* as the original, and the call returns; a call that does not reach the
\* loop shuffles nothing.
C25_FixedPermutationWorkload ==
    perm.op = "permanova" =>
        IF FallbackRan
        THEN /\ perm.result.method = "permanova_fallback"
             /\ perm.result.shuffled = perms
             /\ Len(perm.result.perm_labels) = perms
             /\ \A t \in 1..perms :
                   /\ DOMAIN perm.result.perm_labels[t] = PermGroups
                   /\ \A g \in PermGroups :
                         perm.result.perm_labels[t][g] =
                             Cardinality({ i \in PermLabelled : PermLabel(i) = g })
        ELSE perm.result.shuffled = 0

\* three samples in three groups: no statistic is defined and no shuffle is
\* counted for the p-value, yet all the shuffles were made
C25_Witness ==
    /\ FallbackRan
    /\ Cardinality(PermGroups) = 3
    /\ IsNaN(perm.result.pseudoF)
    /\ perm.result.perm_F_len = 0
    /\ perm.result.shuffled = perms

\* the coerced counts of the rows read, in row order
ConsumedCounts == [a \in 1..Len(consumed) |-> consumed[a].counts]
NonNegativeStream ==
    \A a \in 1..Len(consumed) : \A k \in 1..Len(consumed[a].counts) :
        consumed[a].counts[k] >= 0
HasPositive(v) == \E k \in 1..Len(v) : v[k] > 0

\* C26: after a pass over rows whose counts are all non-negative, the
\* retained buffer holds exactly the count vectors of the rows with a
\* positive count, in row order, each with one entry per sample column in
\* sample order; the sum of a sample's column over the buffer is its library
\* size and the number of positive entries of that column is its richness.
C26_BufferMatchesAccumulators ==
    (PastRows /\ NonNegativeStream) =>
        /\ asv_counts = SelectSeq(ConsumedCounts, HasPositive)
        /\ \A b \in 1..Len(asv_counts) : Len(asv_counts[b]) = Len(sample_cols)
        /\ \A i \in 1..Len(sample_cols) :
              /\ SumInt([b \in 1..Len(asv_counts) |-> asv_counts[b][i]],
                        1..Len(asv_counts)) = libsize[sample_cols[i]]
              /\ Cardinality({ b \in 1..Len(asv_counts) : asv_counts[b][i] > 0 })
                    = richness[sample_cols[i]]

C26_Witness ==
    /\ PastRows /\ NonNegativeStream
    /\ Len(consumed) = 2 /\ Len(asv_counts) = 1
    /\ Len(sample_cols) = 2
    /\ asv_counts[1][1] > 0 /\ asv_counts[1][2] = 0
    /\ richness[sample_cols[1]] = 1 /\ richness[sample_cols[2]] = 0

\* C27 as stated: every sheet of the workbook, PERMANOVA_ASV and (when there
\* are pairwise results) PERMANOVA_Treatment_Pairs included, is written
\* before the writer is closed, on the normal path and on the path taken
\* when the file is locked.
C27_SheetsWrittenBeforeClose ==
    report # <<>> =>
        /\ report.after_close = <<>>
        /\ "PERMANOVA_ASV" \in Range(report.sheets)
        /\ dist.pairwise_treat # <<>> =>
              "PERMANOVA_Treatment_Pairs" \in Range(report.sheets)

\* C21 as stated: once a non-empty sample set has been determined nothing
\* terminates the run before the summary file is written; only a
\* configuration error is fatal.
C21_OnlyConfigurationErrorsFatal ==
    sample_cols # <<>> =>
        /\ pc # "aborted"
        /\ err \in {"none"} \cup ConfigurationErrors
        /\ pc = "done" => summary.written

\* the closing tests have run on the annotated table
Tested == pc = "tested"
\* the treatment levels, after the fill, with a value of the metric
LevelsWithValue(metric) ==
    { fillna(perm.meta[i].treatment) :
        i \in { j \in 1..Len(perm.meta) : ~IsNaN(summary.alpha_annot[j][metric]) } }
KWRecords(metric) ==
    { k \in 1..Len(summary.kw_tests) : summary.kw_tests[k].metric = metric }

\* C22: for each of the two metrics a Kruskal-Wallis record is produced only
\* when at least 2 treatment groups each hold a non-missing value, and its k
\* is the number of those groups; with fewer such groups, or with scipy
\* missing, there is no record, and nothing is raised: the step ends
\* without an error whatever the groups are.  With scipy present and
\* kruskal not raising, 2 such groups do give the record.
C22_KruskalPrecondition ==
    Tested =>
        /\ err = "none"
        /\ summary.scipy = "missing" => summary.kw_tests = <<>>
        /\ \A metric \in { "observed_asvs", "shannon" } :
              /\ Cardinality(KWRecords(metric)) <= 1
              /\ \A k \in KWRecords(metric) :
                    /\ Cardinality(LevelsWithValue(metric)) >= 2
                    /\ summary.kw_tests[k].k = Cardinality(LevelsWithValue(metric))
                    /\ summary.kw_tests[k].test = "kruskal_treatment"
              /\ Cardinality(LevelsWithValue(metric)) < 2 => KWRecords(metric) = {}
              /\ (Cardinality(LevelsWithValue(metric)) >= 2
                    /\ summary.scipy = "available" /\ summary.kw_fail = 0)
                       => KWRecords(metric) # {}

\* two groups have a richness, only one has a Shannon index: one record
C22_Witness ==
    /\ Tested
    /\ summary.scipy = "available" /\ summary.kw_fail = 0
    /\ Len(summary.treatments) = 2
    /\ Cardinality(LevelsWithValue("shannon")) = 1
    /\ KWRecords("observed_asvs") # {} /\ KWRecords("shannon") = {}
    /\ err = "none"

\* the samples without a treatment label
Unlabelled == { i \in 1..Len(perm.meta) : perm.meta[i].treatment = NoLabel }
UnlabelledNames == { perm.meta[i].sample : i \in Unlabelled }

\* C28: the samples without a treatment label are the rows whose filled
\* treatment is 'NA'; when there are any, 'NA' is one of the sorted levels
\* and takes part in a Kruskal-Wallis record like any level (it is among
\* the record's levels when one of those samples has a value, and counted
\* in k).  The same samples are unlabelled for the distance step: a pair
\* with one of them is 'between', two of them included, and PERMANOVA
\* counts only the labelled samples, so it has no statistic when fewer than
\* 3 samples, or fewer than 2 groups, are labelled.
C28_UnlabelledFormNAGroup ==
    Tested =>
        /\ \A i \in 1..Len(perm.meta) :
              summary.alpha_annot[i].treatment = "NA" <=> i \in Unlabelled
        /\ Unlabelled # {} <=> "NA" \in Range(summary.treatments)
        /\ \A k \in 1..Len(summary.kw_tests) :
              /\ "NA" \in Range(summary.kw_tests[k].levels)
                    <=> \E i \in Unlabelled :
                           ~IsNaN(summary.alpha_annot[i][summary.kw_tests[k].metric])
              /\ summary.kw_tests[k].k = Len(summary.kw_tests[k].levels)
        /\ (perm.op = "summarize" /\ perm.group_col = "treatment") =>
              \A k \in 1..Len(perm.long) :
                 (perm.long[k].sample1 \in UnlabelledNames
                    \/ perm.long[k].sample2 \in UnlabelledNames)
                      => perm.long[k].comparison = "between"
        /\ (perm.op = "permanova" /\ perm.group_col = "treatment"
               /\ Unlabelled # {}) =>
              /\ perm.result.pseudoF # SkbioValue
              /\ TooFew(Len(perm.meta) - Cardinality(Unlabelled),
                        Cardinality({ perm.meta[i].treatment :
                                        i \in (1..Len(perm.meta)) \ Unlabelled }))
                    => IsNaN(perm.result.pseudoF) /\ IsNaN(perm.result.pvalue)

\* two unlabelled samples and a control: Kruskal-Wallis compares the groups
\* 'NA' and 'control', the pair of unlabelled samples is 'between'
C28_Witness ==
    /\ Tested
    /\ Cardinality(Unlabelled) = 2 /\ Len(perm.meta) = 3
    /\ perm.op = "summarize" /\ perm.group_col = "treatment"
    /\ \E k \in 1..Len(perm.long) :
          /\ perm.long[k].sample1 \in UnlabelledNames
          /\ perm.long[k].sample2 \in UnlabelledNames
          /\ perm.long[k].comparison = "between"
    /\ \E k \in 1..Len(summary.kw_tests) :
          /\ summary.kw_tests[k].metric = "observed_asvs"
          /\ summary.kw_tests[k].levels = << "NA", "control" >>
          /\ summary.kw_tests[k].k = 2

\* C29 as stated: after the five filtering steps every sample column kept
\* in the final table has at least min_sample_reads reads over the rows
\* kept in the final table.
C29_KeptSamplesHaveEnoughReads ==
    pc \in {"output", "filtered"} =>
        \A k \in 1..Len(asv_table.columns) :
            sample_total(asv_table, asv_table.columns[k]) >= min_sample_reads

\* the stale outputs are gone and the loop is running or over
StaleRemoved == pc \in {"chunks", "chunked"}
\* the chunks processed so far that append to a file: every chunk to the
\* cleaned table, the chunks with an Arthropoda row to the three others
Appenders(path) ==
    { j \in 1..chunk_i :
        path = output_cleaned_table \/ "Arthropoda" \in Range(chunks[j]) }
MinOf(S) == CHOOSE j \in S : \A k \in S : j <= k

\* C30: for any number of chunks, chunks without Arthropoda rows included,
\* each output CSV is absent until the first chunk that appends to it (what
\* an earlier run left is removed first); from then on its first line is
\* the header, written by that chunk, and every other line is a data row
\* of a chunk that appends to it, in chunk order.
C30_HeaderExactlyOnce ==
    StaleRemoved =>
        \A path \in CsvPaths :
            /\ path \in DOMAIN files <=> Appenders(path) # {}
            /\ path \in DOMAIN files =>
                  /\ Len(files[path]) >= 1
                  /\ files[path][1] = HeaderLine(MinOf(Appenders(path)))
                  /\ \A k \in 2..Len(files[path]) :
                        /\ files[path][k].kind = "row"
                        /\ files[path][k].chunk \in Appenders(path)
                        /\ k > 2 => files[path][k - 1].chunk <= files[path][k].chunk

\* three chunks: the first has no taxonomy at all, so the cleaned table gets
\* its header from a frame without rows; the second and third have
\* Arthropoda rows, and the Arthropoda table gets its header from the second
C30_Witness ==
    /\ pc = "chunked" /\ chunk_i = 3
    /\ chunks[1] = << "no-match" >>
    /\ "Arthropoda" \in Range(chunks[2]) /\ "Arthropoda" \in Range(chunks[3])
    /\ files[output_cleaned_table][1] = HeaderLine(1)
    /\ files[output_arthropoda_table][1] = HeaderLine(2)
    /\ Len(files[output_renamed_table]) = 3
    /\ files[output_renamed_table][3].chunk = 3
====
